---- MODULE Spec2Model ----
(***************************************************************************)
(* Markloom: purchase-order workflow, BOM costing and work-order material  *)
(* requirements, modelled from src/components/*.tsx.                       *)
(*                                                                         *)
(* Money is kept in cents, consumption in hundredths of a unit, wastage in *)
(* whole percent; products are kept at their exact scale (no rounding)     *)
(* until toFixed(2) formats them.                                          *)
(***************************************************************************)
EXTENDS Integers, Sequences, FiniteSets, Bags, TLC

(***************************************************************************)
(* Bounds of the model                                                     *)
(***************************************************************************)
MaxPOs == 1
MaxItemId == 2
MaxInFlight == 1

(***************************************************************************)
(* src/types.ts: POStatus                                                  *)
(***************************************************************************)
Draft == "Draft"
Ordered == "Ordered"
Shipped == "Shipped"
Received == "Received"
Cancelled == "Cancelled"
POStatus == {Draft, Ordered, Shipped, Received, Cancelled}

\* settings.poStatuses as loaded from the po_statuses table: the five statuses
poStatuses == POStatus

VARIABLES
    \* ---- MainApp state handed to PurchaseOrders ----
    purchaseOrders,        \* local list of [poNumber, status]
    purchaseOrderItems,    \* local list of [id, poNumber, materialCode, quantity, unitCost]
    materials,             \* local list of [materialCode, costPerUnit]
    \* ---- backend tables purchase_orders / po_items ----
    dbPOs,
    dbItems,
    \* ---- PurchaseOrders component state ----
    isCreateModalOpen,
    editingPO,
    poInForm,
    isSubmitting,
    isItemsModalOpen,
    selectedPOForItems,
    \* ---- POItemsManagerModal component state ----
    newItem,
    itemSubmitting,
    \* ---- handlers suspended at an await ----
    inflight,
    \* ---- Date.now() and the po_item_id sequence ----
    nextPoNumber,
    nextItemId,
    \* ---- message of the window.alert raised by the last step, "none" if none ----
    alert,
    \* ---- PurchaseOrders list as rendered: poTotals, poItemCounts, total cells ----
    poListView,
    \* ---- MainApp: current screen, and the collections of the other screens ----
    view,
    boms,                  \* local list of [bomId, skuCode, materialCode,
                           \*   consumptionPerGarment, wastagePercentage]
    inventory,             \* local list of [materialCode, quantityOnHand]
    workOrders,            \* local list of [woNumber, skuCode, quantity]
    dbMaterials,           \* backend table materials (codes)
    dbInventory,           \* backend table inventory (codes)
    \* ---- BOMBuilder component state and what it renders ----
    selectedStyleCode,
    selectedSkuCode,
    bomView,
    \* ---- WorkOrders component state and what its detail modal renders ----
    selectedWorkOrder,
    isDetailModalOpen,
    woView,
    \* ---- delete handlers of Materials / Inventory suspended at their await ----
    pendingDeletes,
    \* ---- WorkOrders component state (create / edit form) ----
    woIsCreateModalOpen,
    woIsEditModalOpen,
    editingWorkOrder,
    newWorkOrder,          \* [skuCode, quantity, endDate]
    woIsSubmitting,
    \* ---- Inventory component state ----
    invIsModalOpen,
    modalMode,
    editingItem,
    itemInForm,            \* [materialCode, quantityOnHand]
    invIsSubmitting,
    \* ---- BOMBuilder component state (add form) ----
    newBomItem,            \* [materialCode, consumptionPerGarment, wastagePercentage]
    bomIsSubmitting,
    \* ---- Materials component state ----
    matIsModalOpen,
    editingMaterial,
    materialInForm,        \* [costPerUnit]
    matIsSubmitting,
    \* ---- backend tables boms / work_orders, and their key generators ----
    dbBoms,
    dbWorkOrders,
    nextBomId,
    nextWoNumber,
    nextMatId,
    \* ---- insert / update handlers of these screens, and the delete handlers
    \* ---- of BOMBuilder and WorkOrders, suspended at their await ----
    pendingWrites,
    \* ---- MainApp: the initial data load ----
    mainLoading,           \* useState(true)
    mainError,             \* useState<string | null>(null), "" for null
    fetchPending,          \* fetchData is suspended at await Promise.all
    failedFetches,         \* names of the responses that carry an error, as
                           \*   fetchData sees them after the await
    otherCollections,      \* which of styles, skus, suppliers, allUsers and the
                           \*   settings lists hold the rows of their table
    \* ---- AppContent (App.tsx) and the supabase auth client ----
    currentUser,           \* id of the Profile in currentUser, NoUser for null
    authError,
    appLoading,
    session,               \* the session the auth client holds, NoSession for none
    subscribedAs,          \* currentUser?.id as seen by the closure of the effect
                           \*   that holds the auth subscription
    setupCalls,            \* getSession().then and setupUser invocations under way
    authEvents,            \* auth state changes not yet delivered to the callback
    logins,                \* sign-ins made with the Auth form
    \* ---- Settings: currencies ----
    currencies,            \* settings.currencies: list of [id, isDefault]
    dbCurrencies,          \* backend table currencies
    settingsCalls,         \* Settings handlers suspended at an await
    nextCurrencyId

poVars == <<purchaseOrders, purchaseOrderItems, materials, dbPOs, dbItems,
            isCreateModalOpen, editingPO, poInForm, isSubmitting,
            isItemsModalOpen, selectedPOForItems, newItem, itemSubmitting,
            inflight, nextPoNumber, nextItemId, alert>>

calcVars == <<poListView, view, boms, inventory, workOrders, dbMaterials, dbInventory,
              selectedStyleCode, selectedSkuCode, bomView,
              selectedWorkOrder, isDetailModalOpen, woView, pendingDeletes>>

formVars == <<woIsCreateModalOpen, woIsEditModalOpen, editingWorkOrder, newWorkOrder,
              woIsSubmitting, invIsModalOpen, modalMode, editingItem, itemInForm,
              invIsSubmitting, newBomItem, bomIsSubmitting, matIsModalOpen,
              editingMaterial, materialInForm, matIsSubmitting>>

tableVars == <<dbBoms, dbWorkOrders, nextBomId, nextWoNumber, nextMatId, pendingWrites>>

loadVars == <<mainLoading, mainError, fetchPending, failedFetches, otherCollections>>

authVars == <<currentUser, authError, appLoading, session, subscribedAs, setupCalls,
              authEvents, logins>>

settingsVars == <<currencies, dbCurrencies, settingsCalls, nextCurrencyId>>

shellVars == <<loadVars, authVars, settingsVars>>

vars == <<poVars, calcVars, formVars, tableVars, shellVars>>

(***************************************************************************)
(* Helpers                                                                 *)
(***************************************************************************)
Range(s) == {s[i] : i \in 1..Len(s)}

\* Array.prototype.map
MapSeq(s, F(_)) == [i \in 1..Len(s) |-> F(s[i])]

\* null for a PurchaseOrder | null
NoPO == [poNumber |-> 0, status |-> "none"]

\* useState({ materialCode: '', quantity: 1, unitCost: 0 })
BlankItem == [materialCode |-> "", quantity |-> 1, unitCost |-> 0]

\* the materials snapshot the PO screen is given
DefaultMaterials == <<[materialCode |-> "M1", costPerUnit |-> 1000],
                      [materialCode |-> "M2", costPerUnit |-> 2500]>>

\* status of purchase order n in a collection of PO rows, "none" when absent
StatusIn(rows, n) ==
    IF \E p \in rows : p.poNumber = n
    THEN (CHOOSE p \in rows : p.poNumber = n).status
    ELSE "none"

\* const itemsForThisPO = poItems.filter(item => item.poNumber === po.poNumber)
itemsForThisPO(poItems, n) == SelectSeq(poItems, LAMBDA item : item.poNumber = n)

\* mutant: the sum runs over the items of every purchase order
totalValue_Unfiltered(poItems, n) ==
    LET reduce[i \in 0..Len(poItems)] ==
            IF i = 0 THEN 0
            ELSE reduce[i - 1] + poItems[i].quantity * poItems[i].unitCost
    IN  reduce[Len(poItems)]

\* itemsForThisPO.reduce((sum, item) => sum + item.quantity * item.unitCost, 0)
\* of the items modal opened for purchase order n
totalValue(poItems, n) ==
    LET its == itemsForThisPO(poItems, n)
        reduce[i \in 0..Len(its)] ==
            IF i = 0 THEN 0
            ELSE reduce[i - 1] + its[i].quantity * its[i].unitCost
    IN  reduce[Len(its)]

\* materials.filter(m => !usedMaterialCodes.has(m.materialCode))
availableMaterials(mats, poItems, n) ==
    LET usedMaterialCodes == {item.materialCode : item \in Range(itemsForThisPO(poItems, n))}
    IN  SelectSeq(mats, LAMBDA m : m.materialCode \notin usedMaterialCodes)

\* useEffect(..., [availableMaterials]): pre-select first available material
PreselectEffect(avail) ==
    IF Len(avail) > 0
    THEN [materialCode |-> avail[1].materialCode, quantity |-> 1,
          unitCost |-> avail[1].costPerUnit]
    ELSE BlankItem

\* itemsForCurrentPOInForm
itemsForCurrentPOInForm ==
    IF editingPO = NoPO THEN <<>>
    ELSE SelectSeq(purchaseOrderItems, LAMBDA item : item.poNumber = editingPO.poNumber)

\* a Modal is a fixed full-screen overlay above the list
HeaderModalOpen == isCreateModalOpen
ItemsModalOpen == isItemsModalOpen /\ selectedPOForItems # NoPO
AnyModalOpen == HeaderModalOpen \/ ItemsModalOpen

\* MainApp.renderView mounts PurchaseOrders for this view only
PurchaseOrdersRendered == view = "purchaseOrders"

\* the effect runs in every mounted items modal whose poItems prop changed
EffectOn(poItems) ==
    IF selectedPOForItems # NoPO
    THEN PreselectEffect(availableMaterials(materials, poItems, selectedPOForItems.poNumber))
    ELSE newItem

Req(kind, po, from, to, id, mat, qty, cost, live) ==
    [kind |-> kind, po |-> po, from |-> from, to |-> to, id |-> id,
     mat |-> mat, qty |-> qty, cost |-> cost, live |-> live]

\* what the quantity <input> can hold after parseFloat(value) || 0
QtyInputs == {0, 2}

CountItems(rows, n) == Cardinality({i \in rows : i.poNumber = n})

(***************************************************************************)
(* Number formatting                                                       *)
(***************************************************************************)
\* Number.prototype.toFixed(2) of a value held as x units, k units making one
\* hundredth: the value in hundredths, rounded half away from zero
ToFixed2(x, k) ==
    IF x >= 0 THEN (2 * x + k) \div (2 * k) ELSE 0 - ((2 * (0 - x) + k) \div (2 * k))

MaxOf(S) == CHOOSE x \in S : \A y \in S : y <= x

\* all sequences over S of length at most n
SeqsUpTo(S, n) == UNION {[1..k -> S] : k \in 0..n}

(***************************************************************************)
(* PurchaseOrders: poTotals, poItemCounts and the list's total cell        *)
(***************************************************************************)
\* new Map()
EmptyMap == [x \in {} |-> 0]
\* map.get(k) || 0
MapGetOr0(m, k) == IF k \in DOMAIN m THEN m[k] ELSE 0
\* mutant: the value is written under every key of the map
MapSet_EveryKey(m, k, v) == [x \in (DOMAIN m) \cup {k} |-> v]

\* map.set(k, v)
MapSet(m, k, v) == [x \in (DOMAIN m) \cup {k} |-> IF x = k THEN v ELSE m[x]]

\* mutant: the running total of the purchase order is forgotten
poTotalsStep_Overwrite(totals, item) ==
    MapSet(totals, item.poNumber, item.quantity * item.unitCost)

\* body of purchaseOrderItems.forEach in poTotals
poTotalsStep(totals, item) ==
    LET currentTotal == MapGetOr0(totals, item.poNumber)
    IN  MapSet(totals, item.poNumber, currentTotal + item.quantity * item.unitCost)

RECURSIVE poTotalsLoop(_, _, _)
poTotalsLoop(items, i, totals) ==
    IF i > Len(items) THEN totals
    ELSE poTotalsLoop(items, i + 1, poTotalsStep(totals, items[i]))

poTotals(items) == poTotalsLoop(items, 1, EmptyMap)

RECURSIVE poItemCountsLoop(_, _, _)
poItemCountsLoop(items, i, counts) ==
    IF i > Len(items) THEN counts
    ELSE poItemCountsLoop(items, i + 1,
                          MapSet(counts, items[i].poNumber,
                                 MapGetOr0(counts, items[i].poNumber) + 1))

poItemCounts(items) == poItemCountsLoop(items, 1, EmptyMap)

NotRendered == [rendered |-> FALSE]

\* the <tbody> of the purchase-order list: per purchase order the item count
\* and (poTotals.get(po.poNumber) || 0).toFixed(2), in cents
RenderPOList(pos, items) ==
    [rendered |-> TRUE,
     totals |-> poTotals(items),
     counts |-> poItemCounts(items),
     cells |-> [n \in {po.poNumber : po \in Range(pos)} |->
                  [count |-> MapGetOr0(poItemCounts(items), n),
                   total |-> ToFixed2(MapGetOr0(poTotals(items), n), 1)]]]

(***************************************************************************)
(* BOMBuilder: row cost and totalBomCost                                   *)
(***************************************************************************)
styles == <<"ST1", "ST2">>
skus == <<[skuCode |-> "S1", styleCode |-> "ST1"],
          [skuCode |-> "S2", styleCode |-> "ST2"]>>

\* undefined, for materialsMap.get / inventoryMap.get
NoMaterial == [materialCode |-> "", costPerUnit |-> 0]
NoInventory == [materialCode |-> "", quantityOnHand |-> 0]

\* new Map(materials.map(m => [m.materialCode, m])).get(code)
materialsMapGet(mats, code) ==
    LET idx == {i \in 1..Len(mats) : mats[i].materialCode = code}
    IN  IF idx = {} THEN NoMaterial ELSE mats[MaxOf(idx)]

\* skus.filter(s => s.styleCode === selectedStyleCode)
skusForSelectedStyle(style) == SelectSeq(skus, LAMBDA sk : sk.styleCode = style)

\* mutant: the BOM lines are not filtered by SKU
bomForSelectedSku_AllSkus(bs, sku) == bs

\* boms.filter(b => b.skuCode === selectedSkuCode)
bomForSelectedSku(bs, sku) == SelectSeq(bs, LAMBDA b : b.skuCode = sku)

\* mutant: the wastage allowance is left out
LineCost_NoWastage(c, p, w) == c * p * 100

\* consumptionPerGarment * costPerUnit * (1 + wastagePercentage / 100), with c
\* in hundredths, p in cents and w in percent: the result in 1e-6 currency units
LineCost(c, p, w) == c * p * (100 + w)

\* one <tr> of the BOM table
bomRow(item, mats) ==
    LET material == materialsMapGet(mats, item.materialCode)
        cost == IF material # NoMaterial
                THEN LineCost(item.consumptionPerGarment, material.costPerUnit,
                              item.wastagePercentage)
                ELSE 0
    IN  [bomId |-> item.bomId, materialCode |-> item.materialCode,
         cost |-> cost, costText |-> ToFixed2(cost, 10000)]

RECURSIVE totalBomCostReduce(_, _, _, _)
totalBomCostReduce(lines, i, total, mats) ==
    IF i > Len(lines) THEN total
    ELSE LET bomItem == lines[i]
             material == materialsMapGet(mats, bomItem.materialCode)
         IN  IF material = NoMaterial
             THEN totalBomCostReduce(lines, i + 1, total, mats)
             ELSE totalBomCostReduce(lines, i + 1,
                      total + LineCost(bomItem.consumptionPerGarment,
                                       material.costPerUnit,
                                       bomItem.wastagePercentage), mats)

\* bomForSelectedSku.reduce(..., 0)
totalBomCost(lines, mats) == totalBomCostReduce(lines, 1, 0, mats)

NoBomView == [shown |-> FALSE, rows |-> <<>>, totalBomCost |-> 0, totalText |-> 0]

\* what BOMBuilder renders: the table exists only when selectedSkuCode is set
RenderBOMBuilder(v, sku, bs, mats) ==
    IF v = "boms" /\ sku # ""
    THEN [shown |-> TRUE,
          rows |-> MapSeq(bomForSelectedSku(bs, sku), LAMBDA b : bomRow(b, mats)),
          totalBomCost |-> totalBomCost(bomForSelectedSku(bs, sku), mats),
          totalText |-> ToFixed2(totalBomCost(bomForSelectedSku(bs, sku), mats), 10000)]
    ELSE NoBomView

(***************************************************************************)
(* WorkOrders: material requirements of the selected work order            *)
(***************************************************************************)
NoWO == [woNumber |-> 0, skuCode |-> "", quantity |-> 0]

\* new Map(inventory.map(i => [i.materialCode, i])).get(code)
inventoryMapGet(inv, code) ==
    LET idx == {i \in 1..Len(inv) : inv[i].materialCode = code}
    IN  IF idx = {} THEN NoInventory ELSE inv[MaxOf(idx)]

\* mutant: the BOM lines are not filtered by the work order's SKU
workOrderBOMs_AllBoms(sel, bs) == bs

\* boms.filter(b => b.skuCode === selectedWorkOrder.skuCode)
workOrderBOMs(sel, bs) ==
    IF sel = NoWO THEN <<>> ELSE SelectSeq(bs, LAMBDA b : b.skuCode = sel.skuCode)

\* mutant: the wastage allowance is left out of the requirement
RequiredQty_NoWastage(c, q, w) == c * q * 100

\* consumptionPerGarment * quantity * (1 + wastagePercentage / 100), with c in
\* hundredths and w in percent: the result in 1e-4 units of material
RequiredQty(c, q, w) == c * q * (100 + w)

\* mutant: an inventory record is required
OnHandQty_NoDefault(invItem) == IF invItem = NoInventory THEN -1 ELSE invItem.quantityOnHand

\* inventory?.quantityOnHand || 0
OnHandQty(invItem) == IF invItem = NoInventory THEN 0 ELSE invItem.quantityOnHand

\* mutant: the raw difference is shown
ShortfallCell_Unclamped(shortfall) ==
    [value |-> shortfall, text |-> ToFixed2(shortfall, 100), literalZero |-> FALSE]

\* {shortfall > 0 ? shortfall.toFixed(2) : '0'}: the number put in the cell,
\* its text in hundredths, and whether the text is the literal '0'
ShortfallCell(shortfall) ==
    IF shortfall > 0
    THEN [value |-> shortfall, text |-> ToFixed2(shortfall, 100), literalZero |-> FALSE]
    ELSE [value |-> 0, text |-> 0, literalZero |-> TRUE]

\* one <tr> of the Material Requirements table
requirementRow(bom, sel, inv) ==
    LET requiredQty == RequiredQty(bom.consumptionPerGarment, sel.quantity,
                                   bom.wastagePercentage)
        onHandQty == OnHandQty(inventoryMapGet(inv, bom.materialCode))
        shortfall == requiredQty - onHandQty * 10000
    IN  [bomId |-> bom.bomId, materialCode |-> bom.materialCode,
         requiredQty |-> requiredQty, requiredText |-> ToFixed2(requiredQty, 100),
         onHandQty |-> onHandQty, shortfall |-> shortfall,
         cell |-> ShortfallCell(shortfall),
         colour |-> IF shortfall > 0 THEN "red" ELSE "green"]

NoWoView == [shown |-> FALSE, rows |-> <<>>]

\* what the detail modal of WorkOrders renders
RenderWorkOrders(v, sel, open, bs, inv) ==
    IF v = "workOrders" /\ sel # NoWO /\ open
    THEN [shown |-> TRUE,
          rows |-> MapSeq(workOrderBOMs(sel, bs), LAMBDA b : requirementRow(b, sel, inv))]
    ELSE NoWoView

(***************************************************************************)
(* Initial state: MainApp has loaded an empty purchase-order book          *)
(***************************************************************************)
\* the purchase-order screen's own state right after mount
POScreenIdle ==
    /\ isCreateModalOpen = FALSE
    /\ editingPO = NoPO
    /\ poInForm = [status |-> Draft]
    /\ isSubmitting = FALSE
    /\ isItemsModalOpen = FALSE
    /\ selectedPOForItems = NoPO
    /\ newItem = BlankItem
    /\ itemSubmitting = FALSE
    /\ inflight = {}
    /\ nextPoNumber = 1
    /\ nextItemId = 1
    /\ alert = "none"

InitPO ==
    /\ POScreenIdle
    /\ purchaseOrders = <<>>
    /\ purchaseOrderItems = <<>>
    /\ materials = DefaultMaterials
    /\ dbPOs = {}
    /\ dbItems = {}

(***************************************************************************)
(* PurchaseOrders: header modal                                            *)
(***************************************************************************)
\* mutant: the create form opens on whatever the form held last
handleOpenCreateModal_KeepsForm ==
    /\ PurchaseOrdersRendered
    /\ ~AnyModalOpen
    /\ editingPO' = NoPO
    /\ isCreateModalOpen' = TRUE
    /\ alert' = "none"
    /\ UNCHANGED <<purchaseOrders, purchaseOrderItems, materials, dbPOs, dbItems,
                   poInForm, isSubmitting, isItemsModalOpen, selectedPOForItems, newItem,
                   itemSubmitting, inflight, nextPoNumber, nextItemId, calcVars, formVars, tableVars, shellVars>>

handleOpenCreateModal ==
    /\ PurchaseOrdersRendered
    /\ ~AnyModalOpen
    /\ editingPO' = NoPO
    /\ poInForm' = [status |-> Draft]
    /\ isCreateModalOpen' = TRUE
    /\ alert' = "none"
    /\ UNCHANGED <<purchaseOrders, purchaseOrderItems, materials, dbPOs, dbItems,
                   isSubmitting, isItemsModalOpen, selectedPOForItems, newItem,
                   itemSubmitting, inflight, nextPoNumber, nextItemId, calcVars, formVars, tableVars, shellVars>>

handleOpenEditModal ==
    /\ PurchaseOrdersRendered
    /\ ~AnyModalOpen
    /\ \E po \in Range(purchaseOrders) :
        /\ editingPO' = po
        /\ poInForm' = [status |-> po.status]
    /\ isCreateModalOpen' = TRUE
    /\ alert' = "none"
    /\ UNCHANGED <<purchaseOrders, purchaseOrderItems, materials, dbPOs, dbItems,
                   isSubmitting, isItemsModalOpen, selectedPOForItems, newItem,
                   itemSubmitting, inflight, nextPoNumber, nextItemId, calcVars, formVars, tableVars, shellVars>>

handleCloseModal ==
    /\ HeaderModalOpen
    /\ isCreateModalOpen' = FALSE
    /\ editingPO' = NoPO
    /\ alert' = "none"
    /\ UNCHANGED <<purchaseOrders, purchaseOrderItems, materials, dbPOs, dbItems,
                   poInForm, isSubmitting, isItemsModalOpen, selectedPOForItems,
                   newItem, itemSubmitting, inflight, nextPoNumber, nextItemId, calcVars, formVars, tableVars, shellVars>>

\* mutant: no status option is ever disabled
StatusOptionDisabled_NeverDisabled(s) == FALSE

\* <option disabled={itemsForCurrentPOInForm.length === 0 && s.value !== POStatus.Draft}>
StatusOptionDisabled(s) == Len(itemsForCurrentPOInForm) = 0 /\ s # Draft

\* the status <select> of the header form
handleFormChange ==
    /\ HeaderModalOpen
    /\ \E s \in poStatuses :
        /\ s # poInForm.status
        /\ ~StatusOptionDisabled(s)
        /\ poInForm' = [status |-> s]
    /\ alert' = "none"
    /\ UNCHANGED <<purchaseOrders, purchaseOrderItems, materials, dbPOs, dbItems,
                   isCreateModalOpen, editingPO, isSubmitting, isItemsModalOpen,
                   selectedPOForItems, newItem, itemSubmitting, inflight,
                   nextPoNumber, nextItemId, calcVars, formVars, tableVars, shellVars>>

\* handleFormSubmit up to its await
handleFormSubmit ==
    /\ HeaderModalOpen
    /\ ~isSubmitting                      \* <button type="submit" disabled={isSubmitting}>
    /\ Cardinality(inflight) < MaxInFlight
    /\ isSubmitting' = TRUE
    /\ IF editingPO # NoPO
       THEN /\ inflight' = inflight \cup
                  {Req("updatePO", editingPO.poNumber, editingPO.status,
                       poInForm.status, 0, "", 0, 0, TRUE)}
            /\ UNCHANGED nextPoNumber
       ELSE /\ nextPoNumber <= MaxPOs
            /\ inflight' = inflight \cup
                  {Req("createPO", nextPoNumber, "none", poInForm.status,
                       0, "", 0, 0, TRUE)}
            /\ nextPoNumber' = nextPoNumber + 1
    /\ alert' = "none"
    /\ UNCHANGED <<purchaseOrders, purchaseOrderItems, materials, dbPOs, dbItems,
                   isCreateModalOpen, editingPO, poInForm, isItemsModalOpen,
                   selectedPOForItems, newItem, itemSubmitting, nextItemId, calcVars, formVars, tableVars, shellVars>>

\* supabase.from('purchase_orders').update(...).eq('po_number', n) and the rest
\* of handleFormSubmit
FormSubmitUpdateAnswer(r, ok) ==
    /\ r.kind = "updatePO"
    /\ inflight' = inflight \ {r}
    /\ IF ok
       THEN /\ dbPOs' = {IF p.poNumber = r.po THEN [p EXCEPT !.status = r.to] ELSE p
                           : p \in dbPOs}
            /\ purchaseOrders' =
                   MapSeq(purchaseOrders,
                          LAMBDA p : IF p.poNumber = r.po
                                     THEN [poNumber |-> r.po, status |-> r.to]
                                     ELSE p)
            /\ isCreateModalOpen' = FALSE
            /\ editingPO' = NoPO
            /\ alert' = "none"
       ELSE /\ alert' = "Error updating PO"
            /\ UNCHANGED <<dbPOs, purchaseOrders, isCreateModalOpen, editingPO>>
    /\ isSubmitting' = FALSE
    /\ UNCHANGED <<purchaseOrderItems, materials, dbItems, poInForm,
                   isItemsModalOpen, selectedPOForItems, newItem,
                   itemSubmitting, nextPoNumber, nextItemId, calcVars, formVars, tableVars, shellVars>>

FormSubmitUpdateDone ==
    \E r \in inflight, ok \in BOOLEAN : FormSubmitUpdateAnswer(r, ok)

\* supabase.from('purchase_orders').insert(...).select().single() and the rest
FormSubmitCreateAnswer(r, ok) ==
    /\ r.kind = "createPO"
    /\ inflight' = inflight \ {r}
    /\ IF ok
       THEN /\ dbPOs' = dbPOs \cup {[poNumber |-> r.po, status |-> r.to]}
            /\ purchaseOrders' = Append(purchaseOrders,
                                        [poNumber |-> r.po, status |-> r.to])
            /\ isCreateModalOpen' = FALSE
            /\ editingPO' = NoPO
            /\ alert' = "none"
       ELSE /\ alert' = "Error creating PO"
            /\ UNCHANGED <<dbPOs, purchaseOrders, isCreateModalOpen, editingPO>>
    /\ isSubmitting' = FALSE
    /\ UNCHANGED <<purchaseOrderItems, materials, dbItems, poInForm,
                   isItemsModalOpen, selectedPOForItems, newItem,
                   itemSubmitting, nextPoNumber, nextItemId, calcVars, formVars, tableVars, shellVars>>

FormSubmitCreateDone ==
    \E r \in inflight, ok \in BOOLEAN : FormSubmitCreateAnswer(r, ok)

(***************************************************************************)
(* PurchaseOrders: items modal (POItemsManagerModal)                       *)
(***************************************************************************)
handleOpenItemsModal ==
    /\ PurchaseOrdersRendered
    /\ ~AnyModalOpen
    /\ \E po \in Range(purchaseOrders) :
        /\ selectedPOForItems' = po
        \* the modal mounts: useState defaults, then the effect runs
        /\ newItem' = PreselectEffect(availableMaterials(materials, purchaseOrderItems,
                                                         po.poNumber))
    /\ isItemsModalOpen' = TRUE
    /\ itemSubmitting' = FALSE
    /\ alert' = "none"
    /\ UNCHANGED <<purchaseOrders, purchaseOrderItems, materials, dbPOs, dbItems,
                   isCreateModalOpen, editingPO, poInForm, isSubmitting, inflight,
                   nextPoNumber, nextItemId, calcVars, formVars, tableVars, shellVars>>

handleCloseItemsModal ==
    /\ ItemsModalOpen
    /\ isItemsModalOpen' = FALSE
    /\ selectedPOForItems' = NoPO
    \* the modal unmounts: its state is gone, and the setters of a handler
    \* still awaiting the backend no longer reach a mounted component
    /\ newItem' = BlankItem
    /\ itemSubmitting' = FALSE
    /\ inflight' = {IF r.kind = "addItem" THEN [r EXCEPT !.live = FALSE] ELSE r
                      : r \in inflight}
    /\ alert' = "none"
    /\ UNCHANGED <<purchaseOrders, purchaseOrderItems, materials, dbPOs, dbItems,
                   isCreateModalOpen, editingPO, poInForm, isSubmitting,
                   nextPoNumber, nextItemId, calcVars, formVars, tableVars, shellVars>>

\* the add form is rendered only when po.status === POStatus.Draft, po being
\* the snapshot taken by handleOpenItemsModal
AddFormRendered == ItemsModalOpen /\ selectedPOForItems.status = Draft

\* <button disabled={po.status !== POStatus.Draft}> of an item row
DeleteButtonEnabled == ItemsModalOpen /\ selectedPOForItems.status = Draft

handleNewItemChange ==
    /\ AddFormRendered
    /\ \/ \E m \in Range(availableMaterials(materials, purchaseOrderItems,
                                            selectedPOForItems.poNumber)) :
             /\ m.materialCode # newItem.materialCode
             /\ newItem' = [newItem EXCEPT !.materialCode = m.materialCode,
                                           !.unitCost = m.costPerUnit]
       \/ \E q \in QtyInputs :
             /\ q # newItem.quantity
             /\ newItem' = [newItem EXCEPT !.quantity = q]
    /\ alert' = "none"
    /\ UNCHANGED <<purchaseOrders, purchaseOrderItems, materials, dbPOs, dbItems,
                   isCreateModalOpen, editingPO, poInForm, isSubmitting,
                   isItemsModalOpen, selectedPOForItems, itemSubmitting, inflight,
                   nextPoNumber, nextItemId, calcVars, formVars, tableVars, shellVars>>

\* the handlers awaiting the backend whose component is still mounted; a
\* handler left behind by a closed items modal does not hold back the form of
\* the modal opened next
LiveInFlight == {q \in inflight : q.live}

\* the guard of handleAddItem: which submissions are let through to the backend
AddItemAccepted(item) == item.materialCode # "" /\ item.quantity > 0

\* handleAddItem up to its await
handleAddItem ==
    /\ AddFormRendered
    /\ ~itemSubmitting /\ newItem.materialCode # ""   \* submit button disabled otherwise
    /\ IF ~AddItemAccepted(newItem)
       THEN /\ alert' = "Please select a material and enter a valid quantity."
            /\ UNCHANGED <<itemSubmitting, inflight>>
       ELSE /\ Cardinality(LiveInFlight) < MaxInFlight
            /\ itemSubmitting' = TRUE
            /\ inflight' = inflight \cup
                  {Req("addItem", selectedPOForItems.poNumber, "none", "none", 0,
                       newItem.materialCode, newItem.quantity, newItem.unitCost, TRUE)}
            /\ alert' = "none"
    /\ UNCHANGED <<purchaseOrders, purchaseOrderItems, materials, dbPOs, dbItems,
                   isCreateModalOpen, editingPO, poInForm, isSubmitting,
                   isItemsModalOpen, selectedPOForItems, newItem,
                   nextPoNumber, nextItemId, calcVars, formVars, tableVars, shellVars>>

\* supabase.from('po_items').insert(itemToInsert).select().single() and the rest
\* of handleAddItem.  po_items.po_number is a foreign key: the insert fails
\* when the purchase order row is gone.
AddItemAnswer(r, ok) ==
    /\ r.kind = "addItem"
    /\ ok => (StatusIn(dbPOs, r.po) # "none" /\ nextItemId <= MaxItemId)
    /\ inflight' = inflight \ {r}
    /\ IF ok
       THEN LET addedItem == [id |-> nextItemId, poNumber |-> r.po,
                              materialCode |-> r.mat, quantity |-> r.qty,
                              unitCost |-> r.cost]
            IN  /\ dbItems' = dbItems \cup {addedItem}
                /\ purchaseOrderItems' = Append(purchaseOrderItems, addedItem)
                /\ nextItemId' = nextItemId + 1
                \* setNewItem(next material) of the handler is overwritten in
                \* the same commit by the effect on availableMaterials
                /\ newItem' = EffectOn(purchaseOrderItems')
                /\ alert' = "none"
       ELSE /\ alert' = "Error adding item"
            /\ UNCHANGED <<dbItems, purchaseOrderItems, nextItemId, newItem>>
    /\ itemSubmitting' = IF r.live THEN FALSE ELSE itemSubmitting
    /\ UNCHANGED <<purchaseOrders, materials, dbPOs, isCreateModalOpen, editingPO,
                   poInForm, isSubmitting, isItemsModalOpen, selectedPOForItems,
                   nextPoNumber, calcVars, formVars, tableVars, shellVars>>

AddItemDone ==
    \E r \in inflight, ok \in BOOLEAN : AddItemAnswer(r, ok)

\* handleDeleteItem up to its await (window.confirm included)
handleDeleteItem ==
    /\ DeleteButtonEnabled
    /\ \E item \in Range(itemsForThisPO(purchaseOrderItems, selectedPOForItems.poNumber)),
          confirmed \in BOOLEAN :
        /\ item.id # 0                       \* item.id && handleDeleteItem(item.id)
        /\ IF ~confirmed
           THEN UNCHANGED inflight
           ELSE /\ Cardinality(inflight) < MaxInFlight
                /\ inflight' = inflight \cup
                      {Req("deleteItem", item.poNumber, "none", "none", item.id,
                           "", 0, 0, TRUE)}
    /\ alert' = "none"
    /\ UNCHANGED <<purchaseOrders, purchaseOrderItems, materials, dbPOs, dbItems,
                   isCreateModalOpen, editingPO, poInForm, isSubmitting,
                   isItemsModalOpen, selectedPOForItems, newItem, itemSubmitting,
                   nextPoNumber, nextItemId, calcVars, formVars, tableVars, shellVars>>

\* supabase.from('po_items').delete().eq('po_item_id', poItemId) and the rest
DeleteItemAnswer(r, ok) ==
    /\ r.kind = "deleteItem"
    /\ inflight' = inflight \ {r}
    /\ IF ok
       THEN /\ dbItems' = {i \in dbItems : i.id # r.id}
            /\ purchaseOrderItems' = SelectSeq(purchaseOrderItems,
                                               LAMBDA item : item.id # r.id)
            /\ newItem' = EffectOn(purchaseOrderItems')
            /\ alert' = "none"
       ELSE /\ alert' = "Error deleting item"
            /\ UNCHANGED <<dbItems, purchaseOrderItems, newItem>>
    /\ UNCHANGED <<purchaseOrders, materials, dbPOs, isCreateModalOpen, editingPO,
                   poInForm, isSubmitting, isItemsModalOpen, selectedPOForItems,
                   itemSubmitting, nextPoNumber, nextItemId, calcVars, formVars, tableVars, shellVars>>

DeleteItemDone ==
    \E r \in inflight, ok \in BOOLEAN : DeleteItemAnswer(r, ok)

(***************************************************************************)
(* PurchaseOrders: delete a purchase order                                 *)
(***************************************************************************)
\* handleDeletePO(poNumber) up to its first await, confirmed being the answer
\* given to window.confirm
DeletePOClick(po, confirmed) ==
    /\ PurchaseOrdersRendered
    /\ ~AnyModalOpen
    /\ po \in Range(purchaseOrders)
    /\ IF ~confirmed
       THEN UNCHANGED inflight
       ELSE /\ Cardinality(inflight) < MaxInFlight
            /\ inflight' = inflight \cup
                  {Req("deletePOItems", po.poNumber, "none", "none", 0, "", 0, 0, TRUE)}
    /\ alert' = "none"
    /\ UNCHANGED <<purchaseOrders, purchaseOrderItems, materials, dbPOs, dbItems,
                   isCreateModalOpen, editingPO, poInForm, isSubmitting,
                   isItemsModalOpen, selectedPOForItems, newItem, itemSubmitting,
                   nextPoNumber, nextItemId, calcVars, formVars, tableVars, shellVars>>

handleDeletePO ==
    \E po \in Range(purchaseOrders), confirmed \in BOOLEAN : DeletePOClick(po, confirmed)

\* supabase.from('po_items').delete().eq('po_number', poNumber), then either the
\* alert and return, or the second call is sent
DeletePOItemsAnswer(r, ok) ==
    /\ r.kind = "deletePOItems"
    /\ IF ok
       THEN /\ dbItems' = {i \in dbItems : i.poNumber # r.po}
            /\ inflight' = (inflight \ {r}) \cup
                  {Req("deletePOHeader", r.po, "none", "none", 0, "", 0, 0, TRUE)}
            /\ alert' = "none"
       ELSE /\ inflight' = inflight \ {r}
            /\ alert' = "Could not delete PO items"
            /\ UNCHANGED dbItems
    /\ UNCHANGED <<purchaseOrders, purchaseOrderItems, materials, dbPOs,
                   isCreateModalOpen, editingPO, poInForm, isSubmitting,
                   isItemsModalOpen, selectedPOForItems, newItem, itemSubmitting,
                   nextPoNumber, nextItemId, calcVars, formVars, tableVars, shellVars>>

\* mutant: the header deletion is attempted even though the item deletion failed
DeletePOItemsDone_NoEarlyReturn ==
    \E r \in inflight, ok \in BOOLEAN :
        /\ r.kind = "deletePOItems"
        /\ inflight' = (inflight \ {r}) \cup
              {Req("deletePOHeader", r.po, "none", "none", 0, "", 0, 0, TRUE)}
        /\ IF ok
           THEN /\ dbItems' = {i \in dbItems : i.poNumber # r.po}
                /\ alert' = "none"
           ELSE /\ alert' = "Could not delete PO items"
                /\ UNCHANGED dbItems
        /\ UNCHANGED <<purchaseOrders, purchaseOrderItems, materials, dbPOs,
                       isCreateModalOpen, editingPO, poInForm, isSubmitting,
                       isItemsModalOpen, selectedPOForItems, newItem, itemSubmitting,
                       nextPoNumber, nextItemId, calcVars, formVars, tableVars, shellVars>>

DeletePOItemsDone ==
    \E r \in inflight, ok \in BOOLEAN : DeletePOItemsAnswer(r, ok)

\* mutant: only the header is taken out of the local state
DeletePOHeaderAnswer_KeepsItems(r, ok) ==
    /\ r.kind = "deletePOHeader"
    /\ ok => CountItems(dbItems, r.po) = 0
    /\ inflight' = inflight \ {r}
    /\ IF ok
       THEN /\ dbPOs' = {p \in dbPOs : p.poNumber # r.po}
            /\ purchaseOrders' = SelectSeq(purchaseOrders,
                                           LAMBDA p : p.poNumber # r.po)
            /\ alert' = "none"
            /\ UNCHANGED <<purchaseOrderItems, newItem>>
       ELSE /\ alert' = "Error deleting PO"
            /\ UNCHANGED <<dbPOs, purchaseOrders, purchaseOrderItems, newItem>>
    /\ UNCHANGED <<materials, dbItems, isCreateModalOpen, editingPO, poInForm,
                   isSubmitting, isItemsModalOpen, selectedPOForItems,
                   itemSubmitting, nextPoNumber, nextItemId, calcVars, formVars, tableVars, shellVars>>

\* supabase.from('purchase_orders').delete().eq('po_number', poNumber) and the
\* rest of handleDeletePO.  The header cannot be deleted while po_items rows
\* still reference it ("first delete items, then the PO header").
DeletePOHeaderAnswer(r, ok) ==
    /\ r.kind = "deletePOHeader"
    /\ ok => CountItems(dbItems, r.po) = 0
    /\ inflight' = inflight \ {r}
    /\ IF ok
       THEN /\ dbPOs' = {p \in dbPOs : p.poNumber # r.po}
            /\ purchaseOrders' = SelectSeq(purchaseOrders,
                                           LAMBDA p : p.poNumber # r.po)
            /\ purchaseOrderItems' = SelectSeq(purchaseOrderItems,
                                               LAMBDA item : item.poNumber # r.po)
            /\ newItem' = EffectOn(purchaseOrderItems')
            /\ alert' = "none"
       ELSE /\ alert' = "Error deleting PO"
            /\ UNCHANGED <<dbPOs, purchaseOrders, purchaseOrderItems, newItem>>
    /\ UNCHANGED <<materials, dbItems, isCreateModalOpen, editingPO, poInForm,
                   isSubmitting, isItemsModalOpen, selectedPOForItems,
                   itemSubmitting, nextPoNumber, nextItemId, calcVars, formVars, tableVars, shellVars>>

DeletePOHeaderDone ==
    \E r \in inflight, ok \in BOOLEAN : DeletePOHeaderAnswer(r, ok)

(***************************************************************************)
(* Purchase-order claims                                                   *)
(***************************************************************************)
\* requests sent by the step: handlers that have just reached their await
SentNow == {r \in inflight' : r.live /\ r \notin inflight}
\* requests answered by the step
AnsweredNow == {r \in inflight : r \notin inflight' /\ [r EXCEPT !.live = FALSE] \notin inflight'}

\* C1: handleAddItem / handleDeleteItem insert into or delete from po_items
\* only while the owning purchase order's status is Draft.
C1_ItemsChangeOnlyWhileDraft ==
    [][ (\E r \in AnsweredNow : r.kind \in {"addItem", "deleteItem"})
        => \A i \in (dbItems' \ dbItems) \cup (dbItems \ dbItems') :
              StatusIn(dbPOs, i.poNumber) = Draft ]_vars

\* C2: when the purchase order's status is not Draft, handleAddItem and
\* handleDeleteItem make no backend call: the attempt ends in an alert and
\* nothing is sent, so every request they send is for a Draft purchase order.
C2_NonDraftAttemptRejected ==
    [][ \A r \in SentNow :
            r.kind \in {"addItem", "deleteItem"}
            => /\ StatusIn(Range(purchaseOrders), r.po) = Draft
               /\ StatusIn(dbPOs, r.po) = Draft ]_vars

\* C3: a header update that takes a purchase order from Draft to another
\* status is applied only when the purchase order owns at least one item at
\* that time.
C3_PromotionNeedsItem ==
    [][ \A p \in dbPOs :
            (p.status = Draft /\ StatusIn(dbPOs', p.poNumber) \notin {Draft, "none"})
            => CountItems(dbItems, p.poNumber) >= 1 ]_vars

\* the state machine of spec section 4.4
AllowedTransitions ==
    {<<Draft, Ordered>>, <<Draft, Cancelled>>, <<Ordered, Shipped>>,
     <<Ordered, Cancelled>>, <<Shipped, Received>>}

\* C4 (as claimed): every status change made through the header edit is a
\* transition of the state machine; Received and Cancelled are terminal.
C4_StateMachine ==
    [][ \A p \in dbPOs :
            LET t == StatusIn(dbPOs', p.poNumber)
            IN  t \notin {p.status, "none"} => <<p.status, t>> \in AllowedTransitions ]_vars

\* C4 (amended): every status change of a purchase order is the one selected
\* in the header form of an edit, any of the five statuses may follow any
\* other, and the form lets a status other than Draft be selected only while
\* the purchase order in the form has at least one item in the local list.
C4_AnyStatusSelectableWithItems ==
    [][ /\ \A p \in dbPOs :
              LET t == StatusIn(dbPOs', p.poNumber)
              IN  t \notin {p.status, "none"}
                  => /\ t \in POStatus
                     /\ \E r \in AnsweredNow :
                           r.kind = "updatePO" /\ r.po = p.poNumber /\ r.to = t
        /\ (isCreateModalOpen /\ isCreateModalOpen' /\ editingPO' = editingPO
              /\ poInForm'.status \notin {poInForm.status, Draft})
           => Len(itemsForCurrentPOInForm) > 0 ]_vars

\* C4 witness: a purchase order that reached Received is being taken back to
\* Draft by a submitted header edit
C4_Witness ==
    \E r \in inflight :
        /\ r.kind = "updatePO" /\ r.from = Received /\ r.to = Draft
        /\ StatusIn(dbPOs, r.po) = Received

(***************************************************************************)
(* MainApp: navigation, and the delete handlers of Materials and Inventory *)
(***************************************************************************)
\* initial component states of WorkOrders, Inventory, BOMBuilder and Materials
initialWOState == [skuCode |-> "", quantity |-> 0, endDate |-> ""]
initialItemState == [materialCode |-> "", quantityOnHand |-> 0]
initialNewBomItemState == [materialCode |-> "", consumptionPerGarment |-> 0,
                           wastagePercentage |-> 0]
initialMaterialState == [costPerUnit |-> 0]

\* a Modal of WorkOrders, Inventory or Materials covers the page
AnyScreenModalOpen ==
    isDetailModalOpen \/ woIsCreateModalOpen \/ woIsEditModalOpen
      \/ invIsModalOpen \/ matIsModalOpen

\* handlers of these screens suspended at an await
InFlightCount == Cardinality(pendingDeletes) + Cardinality(pendingWrites)

\* ---- AppContent and MainApp around the screens ----
\* currentUser === null, and the auth client without a session
NoUser == "null"
NoSession == "null"
\* the effect of AppContent has not run yet
NotSubscribed == "unsubscribed"

\* profiles rows by user id: isActive and role, "missing" when the select of
\* fetchProfile finds no usable row for the id
ProfileOf(id) ==
    CASE id = "A" -> [isActive |-> TRUE, role |-> "admin"]
      [] id = "U" -> [isActive |-> TRUE, role |-> "user"]
      [] id = "B" -> [isActive |-> FALSE, role |-> "user"]
      [] OTHER -> [isActive |-> FALSE, role |-> "missing"]

\* responseMap of fetchData, in its order
FetchNames == <<"styles", "skus", "materials", "inventory", "purchase_orders",
                "po_items", "work_orders", "boms", "suppliers", "currencies",
                "colors", "sizes", "material_types", "units_of_measure",
                "po_statuses", "apiKey", "profiles">>

\* the collections of MainApp that are not carried as a list of rows here,
\* each filled from the fetch of the same name (settings from seven of them)
OtherCollectionNames == {"styles", "skus", "suppliers", "colors", "sizes",
                         "material_types", "units_of_measure", "po_statuses",
                         "apiKey", "profiles"}

\* currencies as loaded: one default
LoadedCurrencies == <<[id |-> 1, isDefault |-> TRUE], [id |-> 2, isDefault |-> FALSE]>>

\* a signed-in administrator on a loaded application
ShellIdle ==
    /\ mainLoading = FALSE /\ mainError = "" /\ fetchPending = FALSE
    /\ failedFetches = {}
    /\ otherCollections = OtherCollectionNames
    /\ currentUser = "A" /\ authError = "" /\ appLoading = FALSE
    /\ session = "A" /\ subscribedAs = "A"
    /\ setupCalls = EmptyBag /\ authEvents = <<>> /\ logins = 0
    /\ currencies = LoadedCurrencies /\ dbCurrencies = Range(LoadedCurrencies)
    /\ settingsCalls = {} /\ nextCurrencyId = 3

\* component state of the four screens right after mount
FormIdle ==
    /\ woIsCreateModalOpen = FALSE /\ woIsEditModalOpen = FALSE
    /\ editingWorkOrder = NoWO /\ newWorkOrder = initialWOState
    /\ woIsSubmitting = FALSE
    /\ invIsModalOpen = FALSE /\ modalMode = "add"
    /\ editingItem = NoInventory /\ itemInForm = initialItemState
    /\ invIsSubmitting = FALSE
    /\ newBomItem = initialNewBomItemState /\ bomIsSubmitting = FALSE
    /\ matIsModalOpen = FALSE /\ editingMaterial = NoMaterial
    /\ materialInForm = initialMaterialState /\ matIsSubmitting = FALSE
    /\ pendingWrites = {}

\* backend tables mirroring the loaded lists
TablesLoaded ==
    /\ dbBoms = Range(boms)
    /\ dbWorkOrders = Range(workOrders)
    /\ nextBomId = Len(boms) + 1
    /\ nextWoNumber = Len(workOrders) + 1
    /\ nextMatId = 3

\* state of the screens that are not mounted or not loaded
CalcIdle ==
    /\ poListView = NotRendered
    /\ view = "purchaseOrders"
    /\ boms = <<>>
    /\ inventory = <<>>
    /\ workOrders = <<>>
    /\ dbMaterials = {m.materialCode : m \in Range(DefaultMaterials)}
    /\ dbInventory = {}
    /\ selectedStyleCode = ""
    /\ selectedSkuCode = ""
    /\ bomView = NoBomView
    /\ selectedWorkOrder = NoWO
    /\ isDetailModalOpen = FALSE
    /\ woView = NoWoView
    /\ pendingDeletes = {}
    /\ FormIdle
    /\ ShellIdle
    /\ TablesLoaded

poScreenVars == <<isCreateModalOpen, editingPO, poInForm, isSubmitting,
                  isItemsModalOpen, selectedPOForItems, newItem, itemSubmitting,
                  inflight, nextPoNumber, nextItemId>>

\* NavLink onClick={setView}: the screen left is unmounted and loses its state;
\* the sidebar is covered while a modal is open
setView(target) ==
    /\ target # view
    /\ ~AnyScreenModalOpen
    /\ ~AnyModalOpen
    /\ isCreateModalOpen' = FALSE /\ editingPO' = NoPO
    /\ poInForm' = [status |-> Draft] /\ isSubmitting' = FALSE
    /\ isItemsModalOpen' = FALSE /\ selectedPOForItems' = NoPO
    /\ newItem' = BlankItem /\ itemSubmitting' = FALSE
    /\ inflight' = {[r EXCEPT !.live = FALSE] : r \in inflight}
    /\ view' = target
    /\ selectedStyleCode' = ""
    /\ selectedSkuCode' = ""
    /\ selectedWorkOrder' = NoWO
    /\ isDetailModalOpen' = FALSE
    /\ woIsCreateModalOpen' = FALSE /\ woIsEditModalOpen' = FALSE
    /\ editingWorkOrder' = NoWO /\ newWorkOrder' = initialWOState
    /\ woIsSubmitting' = FALSE
    /\ invIsModalOpen' = FALSE /\ modalMode' = "add"
    /\ editingItem' = NoInventory /\ itemInForm' = initialItemState
    /\ invIsSubmitting' = FALSE
    /\ newBomItem' = initialNewBomItemState /\ bomIsSubmitting' = FALSE
    /\ matIsModalOpen' = FALSE /\ editingMaterial' = NoMaterial
    /\ materialInForm' = initialMaterialState /\ matIsSubmitting' = FALSE
    /\ pendingWrites' = {[r EXCEPT !.live = FALSE] : r \in pendingWrites}
    /\ bomView' = RenderBOMBuilder(target, "", boms, materials)
    /\ woView' = RenderWorkOrders(target, NoWO, FALSE, boms, inventory)
    /\ alert' = "none"
    /\ UNCHANGED <<purchaseOrders, purchaseOrderItems, materials, dbPOs, dbItems,
                   nextPoNumber, nextItemId, poListView, boms, inventory, workOrders,
                   dbMaterials, dbInventory, pendingDeletes,
                   dbBoms, dbWorkOrders, nextBomId, nextWoNumber, nextMatId, shellVars>>

\* BOMBuilder.handleStyleChange
handleStyleChange ==
    \E style \in Range(styles) :
        /\ view = "boms"
        /\ style # selectedStyleCode
        /\ selectedStyleCode' = style
        /\ selectedSkuCode' = ""
        /\ bomView' = RenderBOMBuilder(view, "", boms, materials)
        /\ alert' = "none"
        /\ UNCHANGED <<purchaseOrders, purchaseOrderItems, materials, dbPOs, dbItems,
                       poScreenVars, poListView, view, boms, inventory, workOrders,
                       dbMaterials, dbInventory, selectedWorkOrder,
                       isDetailModalOpen, woView, pendingDeletes,
                   formVars, tableVars, shellVars>>

\* BOMBuilder.handleSkuChange
handleSkuChange ==
    \E sku \in Range(skusForSelectedStyle(selectedStyleCode)) :
        /\ view = "boms"
        /\ selectedStyleCode # ""
        /\ sku.skuCode # selectedSkuCode
        /\ selectedSkuCode' = sku.skuCode
        /\ bomView' = RenderBOMBuilder(view, sku.skuCode, boms, materials)
        /\ alert' = "none"
        /\ UNCHANGED <<purchaseOrders, purchaseOrderItems, materials, dbPOs, dbItems,
                       poScreenVars, poListView, view, boms, inventory, workOrders,
                       dbMaterials, dbInventory, selectedStyleCode, selectedWorkOrder,
                       isDetailModalOpen, woView, pendingDeletes,
                   formVars, tableVars, shellVars>>

\* Materials.handleDeleteMaterial up to its await (window.confirm included)
handleDeleteMaterial ==
    \E m \in Range(materials), confirmed \in BOOLEAN :
        /\ view = "materials"
        /\ ~matIsModalOpen
        /\ confirmed => InFlightCount < MaxInFlight
        /\ pendingDeletes' = IF confirmed
                             THEN pendingDeletes \cup
                                  {[table |-> "materials", code |-> m.materialCode]}
                             ELSE pendingDeletes
        /\ alert' = "none"
        /\ UNCHANGED <<purchaseOrders, purchaseOrderItems, materials, dbPOs, dbItems,
                       poScreenVars, poListView, view, boms, inventory, workOrders,
                       dbMaterials, dbInventory, selectedStyleCode, selectedSkuCode,
                       bomView, selectedWorkOrder, isDetailModalOpen, woView,
                   formVars, tableVars, shellVars>>

\* supabase.from('materials').delete() and the rest of handleDeleteMaterial
DeleteMaterialAnswer(r, ok) ==
    /\ r.table = "materials"
    /\ pendingDeletes' = pendingDeletes \ {r}
    /\ IF ok
       THEN /\ dbMaterials' = dbMaterials \ {r.code}
            /\ materials' = SelectSeq(materials, LAMBDA m : m.materialCode # r.code)
            /\ alert' = "none"
       ELSE /\ alert' = "Error deleting material"
            /\ UNCHANGED <<dbMaterials, materials>>
    /\ bomView' = RenderBOMBuilder(view, selectedSkuCode, boms, materials')
    /\ UNCHANGED <<purchaseOrders, purchaseOrderItems, dbPOs, dbItems,
                   poScreenVars, poListView, view, boms, inventory, workOrders,
                   dbInventory, selectedStyleCode, selectedSkuCode,
                   selectedWorkOrder, isDetailModalOpen, woView,
               formVars, tableVars, shellVars>>

DeleteMaterialDone ==
    \E r \in pendingDeletes, ok \in BOOLEAN : DeleteMaterialAnswer(r, ok)

\* mutant: opening the detail view issues the stock of every material
handleWoClick_IssuesStock ==
    \E wo \in Range(workOrders) :
        /\ view = "workOrders"
        /\ ~AnyScreenModalOpen
        /\ selectedWorkOrder' = wo
        /\ isDetailModalOpen' = TRUE
        /\ inventory' = [i \in 1..Len(inventory) |->
                            [inventory[i] EXCEPT !.quantityOnHand = 0]]
        /\ woView' = RenderWorkOrders(view, wo, TRUE, boms, inventory')
        /\ alert' = "none"
        /\ UNCHANGED <<purchaseOrders, purchaseOrderItems, materials, dbPOs, dbItems,
                       poScreenVars, poListView, view, boms, workOrders,
                       dbMaterials, dbInventory, selectedStyleCode, selectedSkuCode,
                       bomView, pendingDeletes,
                   formVars, tableVars, shellVars>>

\* WorkOrders.handleWoClick
handleWoClick ==
    \E wo \in Range(workOrders) :
        /\ view = "workOrders"
        /\ ~AnyScreenModalOpen
        /\ selectedWorkOrder' = wo
        /\ isDetailModalOpen' = TRUE
        /\ woView' = RenderWorkOrders(view, wo, TRUE, boms, inventory)
        /\ alert' = "none"
        /\ UNCHANGED <<purchaseOrders, purchaseOrderItems, materials, dbPOs, dbItems,
                       poScreenVars, poListView, view, boms, inventory, workOrders,
                       dbMaterials, dbInventory, selectedStyleCode, selectedSkuCode,
                       bomView, pendingDeletes,
                   formVars, tableVars, shellVars>>

\* WorkOrders.handleCloseDetailModal
handleCloseDetailModal ==
    /\ view = "workOrders"
    /\ isDetailModalOpen
    /\ isDetailModalOpen' = FALSE
    /\ selectedWorkOrder' = NoWO
    /\ woView' = RenderWorkOrders(view, NoWO, FALSE, boms, inventory)
    /\ alert' = "none"
    /\ UNCHANGED <<purchaseOrders, purchaseOrderItems, materials, dbPOs, dbItems,
                   poScreenVars, poListView, view, boms, inventory, workOrders,
                   dbMaterials, dbInventory, selectedStyleCode, selectedSkuCode,
                   bomView, pendingDeletes,
                   formVars, tableVars, shellVars>>

\* Inventory.handleDeleteItem up to its await (window.confirm included)
Inventory_handleDeleteItem ==
    \E item \in Range(inventory), confirmed \in BOOLEAN :
        /\ view = "inventory"
        /\ ~invIsModalOpen
        /\ confirmed => InFlightCount < MaxInFlight
        /\ pendingDeletes' = IF confirmed
                             THEN pendingDeletes \cup
                                  {[table |-> "inventory", code |-> item.materialCode]}
                             ELSE pendingDeletes
        /\ alert' = "none"
        /\ UNCHANGED <<purchaseOrders, purchaseOrderItems, materials, dbPOs, dbItems,
                       poScreenVars, poListView, view, boms, inventory, workOrders,
                       dbMaterials, dbInventory, selectedStyleCode, selectedSkuCode,
                       bomView, selectedWorkOrder, isDetailModalOpen, woView,
                   formVars, tableVars, shellVars>>

\* supabase.from('inventory').delete() and the rest of Inventory.handleDeleteItem
Inventory_DeleteItemAnswer(r, ok) ==
    /\ r.table = "inventory"
    /\ pendingDeletes' = pendingDeletes \ {r}
    /\ IF ok
       THEN /\ dbInventory' = dbInventory \ {r.code}
            /\ inventory' = SelectSeq(inventory, LAMBDA it : it.materialCode # r.code)
            /\ alert' = "none"
       ELSE /\ alert' = "Error deleting inventory item"
            /\ UNCHANGED <<dbInventory, inventory>>
    /\ woView' = RenderWorkOrders(view, selectedWorkOrder, isDetailModalOpen,
                                  boms, inventory')
    /\ UNCHANGED <<purchaseOrders, purchaseOrderItems, materials, dbPOs, dbItems,
                   poScreenVars, poListView, view, boms, workOrders,
                   dbMaterials, selectedStyleCode, selectedSkuCode, bomView,
                   selectedWorkOrder, isDetailModalOpen,
               formVars, tableVars, shellVars>>

Inventory_DeleteItemDone ==
    \E r \in pendingDeletes, ok \in BOOLEAN : Inventory_DeleteItemAnswer(r, ok)

(***************************************************************************)
(* WorkOrders: create / edit form and delete                               *)
(***************************************************************************)
MaxWOs == 2

\* a handler of these screens suspended at its await, with the row it sent
Write(table, op, key, skuCode, materialCode, amount, percent) ==
    [table |-> table, op |-> op, key |-> key, skuCode |-> skuCode,
     materialCode |-> materialCode, amount |-> amount, percent |-> percent,
     live |-> TRUE]

\* values typed into the quantity input: parseInt(value, 10) || 0
WoQtyInputs == {-1, 0, 3}

\* mutant: the quantity input carries no min attribute
QuantityInputValid_NoMin(q) == TRUE

\* <input type="number" name="quantity" required min="1">
QuantityInputValid(q) == q >= 1

\* constraint validation of the work-order form: the submit event is fired
\* only when every required control holds a valid value
WoFormValid(form) ==
    /\ form.skuCode # ""
    /\ QuantityInputValid(form.quantity)
    /\ form.endDate # ""

\* [...prev, createdWO].sort((a, b) => b.woNumber.localeCompare(a.woNumber))
RECURSIVE SortDescByWoNumber(_)
SortDescByWoNumber(list) ==
    IF list = <<>> THEN <<>>
    ELSE LET top == MaxOf({wo.woNumber : wo \in Range(list)})
         IN  SelectSeq(list, LAMBDA wo : wo.woNumber = top)
               \o SortDescByWoNumber(SelectSeq(list, LAMBDA wo : wo.woNumber # top))

WoFrame == <<purchaseOrders, purchaseOrderItems, materials, dbPOs, dbItems,
             poScreenVars, poListView, view, boms, inventory, dbMaterials,
             dbInventory, selectedStyleCode, selectedSkuCode, bomView,
             pendingDeletes, invIsModalOpen, modalMode, editingItem, itemInForm,
             invIsSubmitting, newBomItem, bomIsSubmitting, matIsModalOpen,
             editingMaterial, materialInForm, matIsSubmitting,
             dbBoms, nextBomId, nextMatId,
              shellVars>>

\* onClick={() => setIsCreateModalOpen(true)}
WO_openCreateModal ==
    /\ view = "workOrders"
    /\ ~AnyScreenModalOpen
    /\ woIsCreateModalOpen' = TRUE
    /\ alert' = "none"
    /\ UNCHANGED <<WoFrame, workOrders, dbWorkOrders, nextWoNumber, pendingWrites,
                   selectedWorkOrder, isDetailModalOpen, woView, woIsEditModalOpen,
                   editingWorkOrder, newWorkOrder, woIsSubmitting>>

\* WorkOrders.handleEditClick
handleEditClick ==
    \E wo \in Range(workOrders) :
        /\ view = "workOrders"
        /\ ~AnyScreenModalOpen
        /\ editingWorkOrder' = wo
        /\ woIsEditModalOpen' = TRUE
        /\ alert' = "none"
        /\ UNCHANGED <<WoFrame, workOrders, dbWorkOrders, nextWoNumber, pendingWrites,
                       selectedWorkOrder, isDetailModalOpen, woView,
                       woIsCreateModalOpen, newWorkOrder, woIsSubmitting>>

\* Cancel button and onClose of the form modal
WO_closeFormModal ==
    /\ view = "workOrders"
    /\ woIsCreateModalOpen \/ woIsEditModalOpen
    /\ woIsCreateModalOpen' = FALSE
    /\ woIsEditModalOpen' = FALSE
    /\ editingWorkOrder' = NoWO
    /\ alert' = "none"
    /\ UNCHANGED <<WoFrame, workOrders, dbWorkOrders, nextWoNumber, pendingWrites,
                   selectedWorkOrder, isDetailModalOpen, woView,
                   newWorkOrder, woIsSubmitting>>

\* WorkOrders.handleFormChange: the setter is chosen by isEditModalOpen
WO_handleFormChange ==
    /\ view = "workOrders"
    /\ woIsCreateModalOpen \/ woIsEditModalOpen
    /\ IF woIsEditModalOpen
       THEN /\ editingWorkOrder # NoWO
            /\ \/ \E q \in WoQtyInputs :
                     /\ q # editingWorkOrder.quantity
                     /\ editingWorkOrder' = [editingWorkOrder EXCEPT !.quantity = q]
               \/ \E sk \in Range(skus) :
                     /\ sk.skuCode # editingWorkOrder.skuCode
                     /\ editingWorkOrder' = [editingWorkOrder EXCEPT !.skuCode = sk.skuCode]
            /\ UNCHANGED newWorkOrder
       ELSE /\ \/ \E q \in WoQtyInputs :
                     /\ q # newWorkOrder.quantity
                     /\ newWorkOrder' = [newWorkOrder EXCEPT !.quantity = q]
               \/ \E sk \in Range(skus) :
                     /\ sk.skuCode # newWorkOrder.skuCode
                     /\ newWorkOrder' = [newWorkOrder EXCEPT !.skuCode = sk.skuCode]
               \/ /\ newWorkOrder.endDate = ""
                  /\ newWorkOrder' = [newWorkOrder EXCEPT !.endDate = "2026-12-31"]
            /\ UNCHANGED editingWorkOrder
    /\ alert' = "none"
    /\ UNCHANGED <<WoFrame, workOrders, dbWorkOrders, nextWoNumber, pendingWrites,
                   selectedWorkOrder, isDetailModalOpen, woView,
                   woIsCreateModalOpen, woIsEditModalOpen, woIsSubmitting>>

\* submit of the form in create mode: constraint validation, then
\* handleCreateWorkOrder up to its await
handleCreateWorkOrder ==
    /\ view = "workOrders"
    /\ woIsCreateModalOpen /\ ~woIsEditModalOpen
    /\ ~woIsSubmitting
    /\ IF ~WoFormValid(newWorkOrder)
       THEN /\ alert' = "constraint validation"
            /\ UNCHANGED <<woIsSubmitting, pendingWrites, nextWoNumber>>
       ELSE IF newWorkOrder.skuCode = "" \/ newWorkOrder.quantity <= 0
               \/ newWorkOrder.endDate = ""
       THEN /\ alert' = "Please select a SKU, enter a valid quantity, and set an end date."
            /\ UNCHANGED <<woIsSubmitting, pendingWrites, nextWoNumber>>
       ELSE /\ InFlightCount < MaxInFlight
            /\ nextWoNumber <= MaxWOs
            /\ woIsSubmitting' = TRUE
            /\ pendingWrites' = pendingWrites \cup
                  {Write("work_orders", "insert", nextWoNumber, newWorkOrder.skuCode,
                         "", newWorkOrder.quantity, 0)}
            /\ nextWoNumber' = nextWoNumber + 1
            /\ alert' = "none"
    /\ UNCHANGED <<WoFrame, workOrders, dbWorkOrders, selectedWorkOrder,
                   isDetailModalOpen, woView, woIsCreateModalOpen, woIsEditModalOpen,
                   editingWorkOrder, newWorkOrder>>

\* supabase.from('work_orders').insert(...).select().single() and the rest of
\* handleCreateWorkOrder
CreateWorkOrderAnswer(r, ok) ==
    /\ r.table = "work_orders" /\ r.op = "insert"
    /\ pendingWrites' = pendingWrites \ {r}
    /\ IF ok
       THEN LET createdWO == [woNumber |-> r.key, skuCode |-> r.skuCode,
                              quantity |-> r.amount]
            IN  /\ dbWorkOrders' = dbWorkOrders \cup {createdWO}
                /\ workOrders' = SortDescByWoNumber(Append(workOrders, createdWO))
                /\ woIsCreateModalOpen' = IF r.live THEN FALSE ELSE woIsCreateModalOpen
                /\ newWorkOrder' = IF r.live THEN initialWOState ELSE newWorkOrder
                /\ alert' = "none"
       ELSE /\ alert' = "Error creating work order"
            /\ UNCHANGED <<dbWorkOrders, workOrders, woIsCreateModalOpen, newWorkOrder>>
    /\ woIsSubmitting' = IF r.live THEN FALSE ELSE woIsSubmitting
    /\ woView' = RenderWorkOrders(view, selectedWorkOrder, isDetailModalOpen,
                                  boms, inventory)
    /\ UNCHANGED <<WoFrame, nextWoNumber, selectedWorkOrder, isDetailModalOpen,
                   woIsEditModalOpen, editingWorkOrder>>

CreateWorkOrderDone ==
    \E r \in pendingWrites, ok \in BOOLEAN : CreateWorkOrderAnswer(r, ok)

\* submit of the form in edit mode: constraint validation, then
\* handleUpdateWorkOrder up to its await
handleUpdateWorkOrder ==
    /\ view = "workOrders"
    /\ woIsEditModalOpen
    /\ ~woIsSubmitting
    /\ editingWorkOrder # NoWO
    /\ IF ~WoFormValid([skuCode |-> editingWorkOrder.skuCode,
                        quantity |-> editingWorkOrder.quantity,
                        endDate |-> "2026-12-31"])
       THEN /\ alert' = "constraint validation"
            /\ UNCHANGED <<woIsSubmitting, pendingWrites>>
       ELSE /\ InFlightCount < MaxInFlight
            /\ woIsSubmitting' = TRUE
            /\ pendingWrites' = pendingWrites \cup
                  {Write("work_orders", "update", editingWorkOrder.woNumber,
                         editingWorkOrder.skuCode, "", editingWorkOrder.quantity, 0)}
            /\ alert' = "none"
    /\ UNCHANGED <<WoFrame, workOrders, dbWorkOrders, nextWoNumber, selectedWorkOrder,
                   isDetailModalOpen, woView, woIsCreateModalOpen, woIsEditModalOpen,
                   editingWorkOrder, newWorkOrder>>

\* supabase.from('work_orders').update(...).eq(...).select().single() and the
\* rest of handleUpdateWorkOrder; .single() is an error when the row is gone
UpdateWorkOrderAnswer(r, ok) ==
    /\ r.table = "work_orders" /\ r.op = "update"
    /\ ok => \E wo \in dbWorkOrders : wo.woNumber = r.key
    /\ pendingWrites' = pendingWrites \ {r}
    /\ IF ok
       THEN LET updatedWO == [woNumber |-> r.key, skuCode |-> r.skuCode,
                              quantity |-> r.amount]
            IN  /\ dbWorkOrders' = {wo \in dbWorkOrders : wo.woNumber # r.key}
                                     \cup {updatedWO}
                /\ workOrders' = MapSeq(workOrders,
                                        LAMBDA wo : IF wo.woNumber = r.key
                                                    THEN updatedWO ELSE wo)
                /\ woIsEditModalOpen' = IF r.live THEN FALSE ELSE woIsEditModalOpen
                /\ editingWorkOrder' = IF r.live THEN NoWO ELSE editingWorkOrder
                /\ alert' = "none"
       ELSE /\ alert' = "Error updating work order"
            /\ UNCHANGED <<dbWorkOrders, workOrders, woIsEditModalOpen, editingWorkOrder>>
    /\ woIsSubmitting' = IF r.live THEN FALSE ELSE woIsSubmitting
    /\ woView' = RenderWorkOrders(view, selectedWorkOrder, isDetailModalOpen,
                                  boms, inventory)
    /\ UNCHANGED <<WoFrame, nextWoNumber, selectedWorkOrder, isDetailModalOpen,
                   woIsCreateModalOpen, newWorkOrder>>

UpdateWorkOrderDone ==
    \E r \in pendingWrites, ok \in BOOLEAN : UpdateWorkOrderAnswer(r, ok)

\* WorkOrders.handleDeleteWorkOrder up to its await (window.confirm included)
handleDeleteWorkOrder ==
    \E wo \in Range(workOrders), confirmed \in BOOLEAN :
        /\ view = "workOrders"
        /\ ~AnyScreenModalOpen
        /\ confirmed => InFlightCount < MaxInFlight
        /\ pendingWrites' = IF confirmed
                            THEN pendingWrites \cup
                                 {Write("work_orders", "delete", wo.woNumber, "", "", 0, 0)}
                            ELSE pendingWrites
        /\ alert' = "none"
        /\ UNCHANGED <<WoFrame, workOrders, dbWorkOrders, nextWoNumber,
                       selectedWorkOrder, isDetailModalOpen, woView,
                       woIsCreateModalOpen, woIsEditModalOpen, editingWorkOrder,
                       newWorkOrder, woIsSubmitting>>

\* supabase.from('work_orders').delete().eq('wo_number', woNumber) and the rest
\* of handleDeleteWorkOrder
DeleteWorkOrderAnswer(r, ok) ==
    /\ r.table = "work_orders" /\ r.op = "delete"
    /\ pendingWrites' = pendingWrites \ {r}
    /\ IF ok
       THEN /\ dbWorkOrders' = {wo \in dbWorkOrders : wo.woNumber # r.key}
            /\ workOrders' = SelectSeq(workOrders, LAMBDA wo : wo.woNumber # r.key)
            /\ alert' = "none"
       ELSE /\ alert' = "Error deleting work order"
            /\ UNCHANGED <<dbWorkOrders, workOrders>>
    /\ UNCHANGED <<WoFrame, nextWoNumber, selectedWorkOrder, isDetailModalOpen, woView,
                   woIsCreateModalOpen, woIsEditModalOpen, editingWorkOrder,
                   newWorkOrder, woIsSubmitting>>

DeleteWorkOrderDone ==
    \E r \in pendingWrites, ok \in BOOLEAN : DeleteWorkOrderAnswer(r, ok)

(***************************************************************************)
(* BOMBuilder: add and delete BOM lines                                    *)
(***************************************************************************)
MaxBomId == 3

\* values typed into the consumption input (hundredths) and the wastage
\* input (percent): parseFloat(value) || 0
BomConsumptionInputs == {-100, 0, 250}

BomWastageInputs == {-5, 10}

\* BOMBuilder.availableMaterials: materials not yet used by the selected SKU
BOM_availableMaterials(mats, bs, sku) ==
    SelectSeq(mats, LAMBDA m :
        ~\E l \in Range(bomForSelectedSku(bs, sku)) : l.materialCode = m.materialCode)

\* the value the <select> element holds: the option matching the value prop
\* (the disabled placeholder has value ""), else the first option that is not
\* disabled, else the placeholder
DomSelectValue(value, options) ==
    IF value = "" \/ \E i \in 1..Len(options) : options[i] = value THEN value
    ELSE IF options # <<>> THEN options[1]
    ELSE ""

BomOptions(mats, bs, sku) ==
    MapSeq(BOM_availableMaterials(mats, bs, sku), LAMBDA m : m.materialCode)

\* constraint validation of the add-material form: select required; both
\* number inputs required with min="0"
BomFormValid(form, options) ==
    /\ DomSelectValue(form.materialCode, options) # ""
    /\ form.consumptionPerGarment >= 0
    /\ form.wastagePercentage >= 0

BomFrame == <<purchaseOrders, purchaseOrderItems, materials, dbPOs, dbItems,
              poScreenVars, poListView, view, inventory, workOrders, dbMaterials,
              dbInventory, selectedStyleCode, selectedSkuCode, selectedWorkOrder,
              isDetailModalOpen, woView, pendingDeletes,
              woIsCreateModalOpen, woIsEditModalOpen, editingWorkOrder, newWorkOrder,
              woIsSubmitting, invIsModalOpen, modalMode, editingItem, itemInForm,
              invIsSubmitting, matIsModalOpen, editingMaterial, materialInForm,
              matIsSubmitting, dbWorkOrders, nextWoNumber, nextMatId,
              shellVars>>

\* BOMBuilder.handleNewItemChange
BOM_handleNewItemChange ==
    /\ view = "boms"
    /\ selectedSkuCode # ""
    /\ \/ \E i \in 1..Len(BomOptions(materials, boms, selectedSkuCode)) :
             LET code == BomOptions(materials, boms, selectedSkuCode)[i]
             IN  /\ code # DomSelectValue(newBomItem.materialCode,
                                          BomOptions(materials, boms, selectedSkuCode))
                 /\ newBomItem' = [newBomItem EXCEPT !.materialCode = code]
       \/ \E c \in BomConsumptionInputs :
             /\ c # newBomItem.consumptionPerGarment
             /\ newBomItem' = [newBomItem EXCEPT !.consumptionPerGarment = c]
       \/ \E w \in BomWastageInputs :
             /\ w # newBomItem.wastagePercentage
             /\ newBomItem' = [newBomItem EXCEPT !.wastagePercentage = w]
    /\ alert' = "none"
    /\ UNCHANGED <<BomFrame, boms, dbBoms, nextBomId, bomView, bomIsSubmitting,
                   pendingWrites>>

\* submit of the add-material form: constraint validation, then
\* handleAddItemToBOM up to its await
handleAddItemToBOM ==
    /\ view = "boms"
    /\ selectedSkuCode # ""
    /\ ~bomIsSubmitting
    /\ IF ~BomFormValid(newBomItem, BomOptions(materials, boms, selectedSkuCode))
       THEN /\ alert' = "constraint validation"
            /\ UNCHANGED <<bomIsSubmitting, pendingWrites>>
       ELSE IF selectedSkuCode = "" \/ newBomItem.materialCode = ""
               \/ newBomItem.consumptionPerGarment <= 0
       THEN /\ alert' = "Please select an SKU, a material, and enter a valid consumption value."
            /\ UNCHANGED <<bomIsSubmitting, pendingWrites>>
       ELSE /\ InFlightCount < MaxInFlight
            /\ bomIsSubmitting' = TRUE
            /\ pendingWrites' = pendingWrites \cup
                  {Write("boms", "insert", 0, selectedSkuCode, newBomItem.materialCode,
                         newBomItem.consumptionPerGarment,
                         newBomItem.wastagePercentage)}
            /\ alert' = "none"
    /\ UNCHANGED <<BomFrame, boms, dbBoms, nextBomId, bomView, newBomItem>>

\* mutant: the line is appended to the local list before the answer is
\* looked at
AddItemToBOMAnswer_AppendOnError(r, ok) ==
    /\ r.table = "boms" /\ r.op = "insert"
    /\ nextBomId <= MaxBomId
    /\ pendingWrites' = pendingWrites \ {r}
    /\ LET data == [bomId |-> nextBomId, skuCode |-> r.skuCode,
                    materialCode |-> r.materialCode,
                    consumptionPerGarment |-> r.amount,
                    wastagePercentage |-> r.percent]
       IN  /\ dbBoms' = IF ok THEN dbBoms \cup {data} ELSE dbBoms
           /\ nextBomId' = nextBomId + 1
           /\ boms' = Append(boms, data)
           /\ newBomItem' = IF r.live /\ ok THEN initialNewBomItemState ELSE newBomItem
           /\ bomView' = RenderBOMBuilder(view, selectedSkuCode,
                                          Append(boms, data), materials)
           /\ alert' = IF ok THEN "none" ELSE "Error adding BOM item"
    /\ bomIsSubmitting' = IF r.live THEN FALSE ELSE bomIsSubmitting
    /\ UNCHANGED BomFrame

\* supabase.from('boms').insert(...).select().single() and the rest of
\* handleAddItemToBOM; the table assigns bom_id
AddItemToBOMAnswer(r, ok) ==
    /\ r.table = "boms" /\ r.op = "insert"
    /\ ok => nextBomId <= MaxBomId
    /\ pendingWrites' = pendingWrites \ {r}
    /\ IF ok
       THEN LET data == [bomId |-> nextBomId, skuCode |-> r.skuCode,
                         materialCode |-> r.materialCode,
                         consumptionPerGarment |-> r.amount,
                         wastagePercentage |-> r.percent]
            IN  /\ dbBoms' = dbBoms \cup {data}
                /\ nextBomId' = nextBomId + 1
                /\ boms' = Append(boms, data)
                /\ newBomItem' = IF r.live THEN initialNewBomItemState ELSE newBomItem
                /\ bomView' = RenderBOMBuilder(view, selectedSkuCode,
                                               Append(boms, data), materials)
                /\ alert' = "none"
       ELSE /\ alert' = "Error adding BOM item"
            /\ UNCHANGED <<dbBoms, nextBomId, boms, newBomItem, bomView>>
    /\ bomIsSubmitting' = IF r.live THEN FALSE ELSE bomIsSubmitting
    /\ UNCHANGED BomFrame

AddItemToBOMDone ==
    \E r \in pendingWrites, ok \in BOOLEAN : AddItemToBOMAnswer(r, ok)

\* BOMBuilder.handleDeleteBomItem up to its await (window.confirm included)
handleDeleteBomItem ==
    \E b \in Range(bomForSelectedSku(boms, selectedSkuCode)), confirmed \in BOOLEAN :
        /\ view = "boms"
        /\ selectedSkuCode # ""
        /\ confirmed => InFlightCount < MaxInFlight
        /\ pendingWrites' = IF confirmed
                            THEN pendingWrites \cup
                                 {Write("boms", "delete", b.bomId, "", "", 0, 0)}
                            ELSE pendingWrites
        /\ alert' = "none"
        /\ UNCHANGED <<BomFrame, boms, dbBoms, nextBomId, bomView, newBomItem,
                       bomIsSubmitting>>

\* supabase.from('boms').delete().eq('bom_id', bomId) and the rest of
\* handleDeleteBomItem
DeleteBomItemAnswer(r, ok) ==
    /\ r.table = "boms" /\ r.op = "delete"
    /\ pendingWrites' = pendingWrites \ {r}
    /\ IF ok
       THEN /\ dbBoms' = {b \in dbBoms : b.bomId # r.key}
            /\ boms' = SelectSeq(boms, LAMBDA b : b.bomId # r.key)
            /\ bomView' = RenderBOMBuilder(view, selectedSkuCode,
                              SelectSeq(boms, LAMBDA b : b.bomId # r.key), materials)
            /\ alert' = "none"
       ELSE /\ alert' = "Error deleting BOM item"
            /\ UNCHANGED <<dbBoms, boms, bomView>>
    /\ UNCHANGED <<BomFrame, nextBomId, newBomItem, bomIsSubmitting>>

DeleteBomItemDone ==
    \E r \in pendingWrites, ok \in BOOLEAN : DeleteBomItemAnswer(r, ok)

(***************************************************************************)
(* Inventory: add / edit modal                                             *)
(***************************************************************************)
\* values typed into the quantity-on-hand input: parseFloat(value) || 0
InvQtyInputs == {-5, 50}

\* mutant: every material is offered in the add form
availableMaterialsToAdd_All(mats, inv) == mats

\* Inventory.availableMaterialsToAdd: materials without an inventory record
availableMaterialsToAdd(mats, inv) ==
    SelectSeq(mats, LAMBDA m : ~\E it \in Range(inv) : it.materialCode = m.materialCode)

InvOptions(mats, inv) ==
    MapSeq(availableMaterialsToAdd(mats, inv), LAMBDA m : m.materialCode)

\* constraint validation of the inventory form: in add mode the material
\* select is required; the number inputs are required and carry no min
InvFormValid(mode, form, options) ==
    mode = "add" => DomSelectValue(form.materialCode, options) # ""

InvFrame == <<purchaseOrders, purchaseOrderItems, materials, dbPOs, dbItems,
              poScreenVars, poListView, view, boms, workOrders, dbMaterials,
              selectedStyleCode, selectedSkuCode, bomView, selectedWorkOrder,
              isDetailModalOpen, pendingDeletes,
              woIsCreateModalOpen, woIsEditModalOpen, editingWorkOrder, newWorkOrder,
              woIsSubmitting, newBomItem, bomIsSubmitting, matIsModalOpen,
              editingMaterial, materialInForm, matIsSubmitting,
              dbBoms, dbWorkOrders, nextBomId, nextWoNumber, nextMatId,
              shellVars>>

\* Inventory.handleOpenAddModal
Inventory_handleOpenAddModal ==
    /\ view = "inventory"
    /\ ~AnyScreenModalOpen
    /\ modalMode' = "add"
    /\ itemInForm' = initialItemState
    /\ invIsModalOpen' = TRUE
    /\ alert' = "none"
    /\ UNCHANGED <<InvFrame, inventory, dbInventory, woView, editingItem,
                   invIsSubmitting, pendingWrites>>

\* Inventory.handleOpenEditModal
Inventory_handleOpenEditModal ==
    \E item \in Range(inventory) :
        /\ view = "inventory"
        /\ ~AnyScreenModalOpen
        /\ modalMode' = "edit"
        /\ editingItem' = item
        /\ itemInForm' = item
        /\ invIsModalOpen' = TRUE
        /\ alert' = "none"
        /\ UNCHANGED <<InvFrame, inventory, dbInventory, woView, invIsSubmitting,
                       pendingWrites>>

\* Inventory.handleCloseModal (Cancel button and onClose)
Inventory_handleCloseModal ==
    /\ view = "inventory"
    /\ invIsModalOpen
    /\ invIsModalOpen' = FALSE
    /\ editingItem' = NoInventory
    /\ itemInForm' = initialItemState
    /\ alert' = "none"
    /\ UNCHANGED <<InvFrame, inventory, dbInventory, woView, modalMode,
                   invIsSubmitting, pendingWrites>>

\* Inventory.handleFormChange: the material select exists in add mode only
Inventory_handleFormChange ==
    /\ view = "inventory"
    /\ invIsModalOpen
    /\ \/ /\ modalMode = "add"
          /\ \E i \in 1..Len(InvOptions(materials, inventory)) :
                LET code == InvOptions(materials, inventory)[i]
                IN  /\ code # DomSelectValue(itemInForm.materialCode,
                                             InvOptions(materials, inventory))
                    /\ itemInForm' = [itemInForm EXCEPT !.materialCode = code]
       \/ \E q \in InvQtyInputs :
             /\ q # itemInForm.quantityOnHand
             /\ itemInForm' = [itemInForm EXCEPT !.quantityOnHand = q]
    /\ alert' = "none"
    /\ UNCHANGED <<InvFrame, inventory, dbInventory, woView, invIsModalOpen,
                   modalMode, editingItem, invIsSubmitting, pendingWrites>>

\* submit of the inventory form: constraint validation, then
\* Inventory.handleFormSubmit up to its await
Inventory_handleFormSubmit ==
    /\ view = "inventory"
    /\ invIsModalOpen
    /\ ~invIsSubmitting
    /\ IF ~InvFormValid(modalMode, itemInForm, InvOptions(materials, inventory))
       THEN /\ alert' = "constraint validation"
            /\ UNCHANGED <<invIsSubmitting, pendingWrites>>
       ELSE IF modalMode = "edit" /\ editingItem # NoInventory
       THEN /\ InFlightCount < MaxInFlight
            /\ invIsSubmitting' = TRUE
            /\ pendingWrites' = pendingWrites \cup
                  {Write("inventory", "update", 0, "", editingItem.materialCode,
                         itemInForm.quantityOnHand, 0)}
            /\ alert' = "none"
       ELSE IF modalMode = "add" /\ itemInForm.materialCode = ""
       THEN /\ alert' = "Please select a material."
            /\ UNCHANGED <<invIsSubmitting, pendingWrites>>
       ELSE IF modalMode = "add"
       THEN /\ InFlightCount < MaxInFlight
            /\ invIsSubmitting' = TRUE
            /\ pendingWrites' = pendingWrites \cup
                  {Write("inventory", "insert", 0, "", itemInForm.materialCode,
                         itemInForm.quantityOnHand, 0)}
            /\ alert' = "none"
       ELSE /\ alert' = "none"
            /\ UNCHANGED <<invIsSubmitting, pendingWrites>>
    /\ UNCHANGED <<InvFrame, inventory, dbInventory, woView, invIsModalOpen,
                   modalMode, editingItem, itemInForm>>

\* the rest of Inventory.handleFormSubmit after its await, for the update and
\* for the insert; on success it ends with handleCloseModal
Inventory_FormSubmitAnswer(r, ok) ==
    /\ r.table = "inventory" /\ r.op \in {"insert", "update"}
    /\ pendingWrites' = pendingWrites \ {r}
    /\ IF ok
       THEN LET row == [materialCode |-> r.materialCode, quantityOnHand |-> r.amount]
            IN  /\ inventory' =
                      IF r.op = "update"
                      THEN MapSeq(inventory, LAMBDA it :
                               IF it.materialCode = r.materialCode THEN row ELSE it)
                      ELSE Append(inventory, row)
                /\ dbInventory' = IF r.op = "insert"
                                  THEN dbInventory \cup {r.materialCode}
                                  ELSE dbInventory
                /\ invIsModalOpen' = IF r.live THEN FALSE ELSE invIsModalOpen
                /\ editingItem' = IF r.live THEN NoInventory ELSE editingItem
                /\ itemInForm' = IF r.live THEN initialItemState ELSE itemInForm
                /\ alert' = "none"
       ELSE /\ alert' = IF r.op = "update" THEN "Error updating inventory"
                                           ELSE "Error adding item"
            /\ UNCHANGED <<inventory, dbInventory, invIsModalOpen, editingItem,
                           itemInForm>>
    /\ invIsSubmitting' = IF r.live THEN FALSE ELSE invIsSubmitting
    /\ woView' = RenderWorkOrders(view, selectedWorkOrder, isDetailModalOpen,
                                  boms, inventory')
    /\ UNCHANGED <<InvFrame, modalMode>>

Inventory_FormSubmitDone ==
    \E r \in pendingWrites, ok \in BOOLEAN : Inventory_FormSubmitAnswer(r, ok)

(***************************************************************************)
(* Materials: add / edit modal                                             *)
(***************************************************************************)
MaxMatId == 3

\* material codes generated by `MAT-${Date.now()}`, in order of creation
MatCodes == <<"M1", "M2", "M3", "M4", "M5">>

\* values typed into the cost input (cents): parseFloat(value) || 0; the
\* input is required with step="0.01" and carries no min
MatCostInputs == {-400, 250}

MatFrame == <<purchaseOrders, purchaseOrderItems, dbPOs, dbItems,
              poScreenVars, poListView, view, boms, inventory, workOrders,
              dbInventory, selectedStyleCode, selectedSkuCode, selectedWorkOrder,
              isDetailModalOpen, woView, pendingDeletes,
              woIsCreateModalOpen, woIsEditModalOpen, editingWorkOrder, newWorkOrder,
              woIsSubmitting, invIsModalOpen, modalMode, editingItem, itemInForm,
              invIsSubmitting, newBomItem, bomIsSubmitting,
              dbBoms, dbWorkOrders, nextBomId, nextWoNumber,
              shellVars>>

\* Materials.handleOpenAddModal
Materials_handleOpenAddModal ==
    /\ view = "materials"
    /\ ~AnyScreenModalOpen
    /\ editingMaterial' = NoMaterial
    /\ materialInForm' = initialMaterialState
    /\ matIsModalOpen' = TRUE
    /\ alert' = "none"
    /\ UNCHANGED <<MatFrame, materials, dbMaterials, bomView, nextMatId,
                   matIsSubmitting, pendingWrites>>

\* Materials.handleOpenEditModal
Materials_handleOpenEditModal ==
    \E material \in Range(materials) :
        /\ view = "materials"
        /\ ~AnyScreenModalOpen
        /\ editingMaterial' = material
        /\ materialInForm' = [costPerUnit |-> material.costPerUnit]
        /\ matIsModalOpen' = TRUE
        /\ alert' = "none"
        /\ UNCHANGED <<MatFrame, materials, dbMaterials, bomView, nextMatId,
                       matIsSubmitting, pendingWrites>>

\* Materials.handleCloseModal (Cancel button and onClose)
Materials_handleCloseModal ==
    /\ view = "materials"
    /\ matIsModalOpen
    /\ matIsModalOpen' = FALSE
    /\ editingMaterial' = NoMaterial
    /\ materialInForm' = initialMaterialState
    /\ alert' = "none"
    /\ UNCHANGED <<MatFrame, materials, dbMaterials, bomView, nextMatId,
                   matIsSubmitting, pendingWrites>>

\* Materials.handleFormChange on the cost input
Materials_handleFormChange ==
    \E c \in MatCostInputs :
        /\ view = "materials"
        /\ matIsModalOpen
        /\ c # materialInForm.costPerUnit
        /\ materialInForm' = [materialInForm EXCEPT !.costPerUnit = c]
        /\ alert' = "none"
        /\ UNCHANGED <<MatFrame, materials, dbMaterials, bomView, nextMatId,
                       matIsModalOpen, editingMaterial, matIsSubmitting, pendingWrites>>

\* Materials.handleFormSubmit up to its await; every required control of the
\* form holds a value and no control has a min
Materials_handleFormSubmit ==
    /\ view = "materials"
    /\ matIsModalOpen
    /\ ~matIsSubmitting
    /\ InFlightCount < MaxInFlight
    /\ matIsSubmitting' = TRUE
    /\ IF editingMaterial # NoMaterial
       THEN /\ pendingWrites' = pendingWrites \cup
                  {Write("materials", "update", 0, "", editingMaterial.materialCode,
                         materialInForm.costPerUnit, 0)}
            /\ UNCHANGED nextMatId
       ELSE /\ nextMatId <= MaxMatId
            /\ pendingWrites' = pendingWrites \cup
                  {Write("materials", "insert", 0, "", MatCodes[nextMatId],
                         materialInForm.costPerUnit, 0)}
            /\ nextMatId' = nextMatId + 1
    /\ alert' = "none"
    /\ UNCHANGED <<MatFrame, materials, dbMaterials, bomView, matIsModalOpen,
                   editingMaterial, materialInForm>>

\* the rest of Materials.handleFormSubmit after its await, for the update and
\* for the insert; on success it ends with handleCloseModal
Materials_FormSubmitAnswer(r, ok) ==
    /\ r.table = "materials" /\ r.op \in {"insert", "update"}
    /\ pendingWrites' = pendingWrites \ {r}
    /\ IF ok
       THEN LET row == [materialCode |-> r.materialCode, costPerUnit |-> r.amount]
            IN  /\ materials' =
                      IF r.op = "update"
                      THEN MapSeq(materials, LAMBDA m :
                               IF m.materialCode = r.materialCode THEN row ELSE m)
                      ELSE Append(materials, row)
                /\ dbMaterials' = IF r.op = "insert"
                                  THEN dbMaterials \cup {r.materialCode}
                                  ELSE dbMaterials
                /\ matIsModalOpen' = IF r.live THEN FALSE ELSE matIsModalOpen
                /\ editingMaterial' = IF r.live THEN NoMaterial ELSE editingMaterial
                /\ materialInForm' = IF r.live THEN initialMaterialState
                                               ELSE materialInForm
                /\ alert' = "none"
       ELSE /\ alert' = IF r.op = "update" THEN "Error updating material"
                                           ELSE "Error adding material"
            /\ UNCHANGED <<materials, dbMaterials, matIsModalOpen, editingMaterial,
                           materialInForm>>
    /\ matIsSubmitting' = IF r.live THEN FALSE ELSE matIsSubmitting
    /\ bomView' = RenderBOMBuilder(view, selectedSkuCode, boms, materials')
    /\ UNCHANGED <<MatFrame, nextMatId>>

Materials_FormSubmitDone ==
    \E r \in pendingWrites, ok \in BOOLEAN : Materials_FormSubmitAnswer(r, ok)

\* PurchaseOrders renders its list from the props it was given
RenderPurchaseOrders ==
    /\ view = "purchaseOrders"
    /\ poListView = NotRendered
    /\ poListView' = RenderPOList(purchaseOrders, purchaseOrderItems)
    /\ alert' = "none"
    /\ UNCHANGED <<purchaseOrders, purchaseOrderItems, materials, dbPOs, dbItems,
                   poScreenVars, view, boms, inventory, workOrders,
                   dbMaterials, dbInventory, selectedStyleCode, selectedSkuCode,
                   bomView, selectedWorkOrder, isDetailModalOpen, woView,
                   pendingDeletes,
                   formVars, tableVars, shellVars>>

(***************************************************************************)
(* MainApp: the initial data load                                          *)
(***************************************************************************)
\* at most this many of the parallel fetches answer with an error
MaxFailures == 2

\* the NavLinks of the sidebar, the administration links for admins only
Views(role) ==
    {"dashboard", "styles", "skus", "materials", "inventory", "boms",
     "purchaseOrders", "workOrders", "suppliers"}
      \cup (IF role = "admin" THEN {"users", "settings"} ELSE {})

\* dataPromises: the profiles query is pushed for admins only
Fetched(role) ==
    {FetchNames[i] : i \in {k \in DOMAIN FetchNames :
                                FetchNames[k] # "profiles" \/ role = "admin"}}

\* rows of the tables when the application is opened
LoadedPOs == <<[poNumber |-> -2, status |-> Draft],
               [poNumber |-> -1, status |-> Ordered]>>
LoadedPOItems == <<[id |-> 1, poNumber |-> -2, materialCode |-> "M2",
                    quantity |-> 1, unitCost |-> 2500],
                   [id |-> 2, poNumber |-> -1, materialCode |-> "M1",
                    quantity |-> 2, unitCost |-> 1000]>>
LoadedInventory == <<[materialCode |-> "M1", quantityOnHand |-> 80]>>
LoadedBoms == <<[bomId |-> 1, skuCode |-> "S1", materialCode |-> "M1",
                 consumptionPerGarment |-> 100, wastagePercentage |-> 5]>>
LoadedWorkOrders == <<[woNumber |-> 1, skuCode |-> "S1", quantity |-> 100]>>

\* no setter of MainApp has been called with rows
NonePopulated ==
    /\ materials = <<>> /\ inventory = <<>> /\ purchaseOrders = <<>>
    /\ purchaseOrderItems = <<>> /\ workOrders = <<>> /\ boms = <<>>
    /\ currencies = <<>>
    /\ otherCollections = {}

\* every collection holds the rows of its table
AllPopulated ==
    /\ materials = DefaultMaterials /\ inventory = LoadedInventory
    /\ purchaseOrders = LoadedPOs /\ purchaseOrderItems = LoadedPOItems
    /\ workOrders = LoadedWorkOrders /\ boms = LoadedBoms
    /\ currencies = LoadedCurrencies
    /\ otherCollections = OtherCollectionNames \cap Fetched(ProfileOf(currentUser).role)

\* the sets of at most n elements of S
RECURSIVE SubsetsUpTo(_, _)
SubsetsUpTo(S, n) ==
    IF n = 0 THEN {{}}
    ELSE LET P == SubsetsUpTo(S, n - 1)
         IN  P \cup {T \cup {x} : T \in P, x \in S}

\* first entry of responseMap whose response carries an error
FirstFailed(failed) ==
    FetchNames[CHOOSE i \in DOMAIN FetchNames :
                  /\ FetchNames[i] \in failed
                  /\ \A j \in 1..(i - 1) : FetchNames[j] \notin failed]

\* what renderView puts in <main>
renderView ==
    IF mainLoading THEN "Loading data..."
    ELSE IF mainError # "" THEN "Error Loading Data"
    ELSE view

\* mutant: the setters run for the responses that carry data before the
\* responses are looked at for errors
FetchDataAnswer_SetBeforeCheck(failed) ==
    /\ fetchPending
    /\ failed \subseteq Fetched(ProfileOf(currentUser).role)
    /\ Cardinality(failed) <= MaxFailures
    /\ failedFetches' = failed
    /\ materials' = IF "materials" \in failed THEN materials ELSE DefaultMaterials
    /\ inventory' = IF "inventory" \in failed THEN inventory ELSE LoadedInventory
    /\ purchaseOrders' = IF "purchase_orders" \in failed THEN purchaseOrders
                         ELSE LoadedPOs
    /\ purchaseOrderItems' = IF "po_items" \in failed THEN purchaseOrderItems
                             ELSE LoadedPOItems
    /\ workOrders' = IF "work_orders" \in failed THEN workOrders ELSE LoadedWorkOrders
    /\ boms' = IF "boms" \in failed THEN boms ELSE LoadedBoms
    /\ currencies' = IF "currencies" \in failed THEN currencies ELSE LoadedCurrencies
    /\ otherCollections' =
          (OtherCollectionNames \cap Fetched(ProfileOf(currentUser).role)) \ failed
    /\ mainError' = IF failed # {} THEN FirstFailed(failed) ELSE mainError
    /\ mainLoading' = FALSE
    /\ fetchPending' = FALSE
    /\ UNCHANGED <<dbPOs, dbItems, poScreenVars, alert, poListView, view, dbMaterials,
                   dbInventory, selectedStyleCode, selectedSkuCode, bomView,
                   selectedWorkOrder, isDetailModalOpen, woView, pendingDeletes,
                   formVars, tableVars, authVars, dbCurrencies, settingsCalls,
                   nextCurrencyId>>

\* fetchData from await Promise.all(dataPromises) on, failed being the names
\* of the responses with an error: the loop over responseMap throws on the
\* first of them (mainError holds the table named in the message), otherwise
\* every setter is called; finally setLoading(false)
FetchDataAnswer(failed) ==
    /\ fetchPending
    /\ failed \subseteq Fetched(ProfileOf(currentUser).role)
    /\ Cardinality(failed) <= MaxFailures
    /\ failedFetches' = failed
    /\ IF failed # {}
       THEN /\ mainError' = FirstFailed(failed)
            /\ UNCHANGED <<materials, inventory, purchaseOrders, purchaseOrderItems,
                           workOrders, boms, currencies, otherCollections>>
       ELSE /\ materials' = DefaultMaterials
            /\ inventory' = LoadedInventory
            /\ purchaseOrders' = LoadedPOs
            /\ purchaseOrderItems' = LoadedPOItems
            /\ workOrders' = LoadedWorkOrders
            /\ boms' = LoadedBoms
            /\ currencies' = LoadedCurrencies
            /\ otherCollections' =
                  OtherCollectionNames \cap Fetched(ProfileOf(currentUser).role)
            /\ UNCHANGED mainError
    /\ mainLoading' = FALSE
    /\ fetchPending' = FALSE
    /\ UNCHANGED <<dbPOs, dbItems, poScreenVars, alert, poListView, view, dbMaterials,
                   dbInventory, selectedStyleCode, selectedSkuCode, bomView,
                   selectedWorkOrder, isDetailModalOpen, woView, pendingDeletes,
                   formVars, tableVars, authVars, dbCurrencies, settingsCalls,
                   nextCurrencyId>>

FetchDataDone ==
    /\ fetchPending
    /\ \E failed \in SubsetsUpTo(Fetched(ProfileOf(currentUser).role), MaxFailures) :
          FetchDataAnswer(failed)

\* the Retry button of the error panel: window.location.reload() mounts
\* MainApp again for the same user, and its effect starts fetchData
Retry ==
    /\ renderView = "Error Loading Data"
    /\ mainLoading' = TRUE
    /\ mainError' = ""
    /\ fetchPending' = TRUE
    /\ failedFetches' = {}
    /\ view' = "dashboard"
    /\ UNCHANGED <<purchaseOrders, purchaseOrderItems, materials, dbPOs, dbItems,
                   poScreenVars, alert, poListView, boms, inventory, workOrders,
                   dbMaterials, dbInventory, selectedStyleCode, selectedSkuCode,
                   bomView, selectedWorkOrder, isDetailModalOpen, woView,
                   pendingDeletes, formVars, tableVars, otherCollections, authVars,
                   settingsVars>>

(***************************************************************************)
(* App: session, profile and the current user                              *)
(***************************************************************************)
\* asynchronous calls under way beyond which the effect does not run and
\* the user starts no sign-in or sign-out
MaxSetupCalls == 3
\* auth state changes waiting for the callback
MaxAuthEvents == 2
\* sign-ins made with the Auth form
MaxLogins == 1

\* accounts that can hold a session: A has an active profile, B an inactive
\* one, C has no profile row that can be read
Accounts == {"A", "B", "C"}
Unusable == {a \in Accounts : ~ProfileOf(a).isActive}

Call(pc, s, attempts) == SetToBag({[pc |-> pc, sess |-> s, attempts |-> attempts]})
CallsAt(pc) == {c \in BagToSet(setupCalls) : c.pc = pc}

\* what AppContent returns
AppRendered ==
    IF appLoading THEN "Loading..."
    ELSE IF currentUser = NoUser THEN "Auth"
    ELSE "MainApp"

\* setupUser(session) up to its first await, rest being the other calls and
\* loadingNow the loading flag as the caller left it
setupUser(s, rest, loadingNow) ==
    IF s = NoSession
    THEN /\ currentUser' = NoUser
         /\ appLoading' = FALSE
         /\ setupCalls' = rest
    ELSE /\ UNCHANGED currentUser
         /\ appLoading' = loadingNow
         /\ setupCalls' = rest (+) Call("fetchProfile", s, 2)

AuthFrame == UNCHANGED <<poVars, calcVars, formVars, tableVars, loadVars, settingsVars>>

\* the effect of AppContent, run on mount and whenever currentUser?.id has
\* changed: setLoading(true), getSession().then(setupUser), and a new
\* subscription whose callback closes over the current user of this render;
\* the auth client may announce the stored session to the new subscriber
AuthEffect(initialEvent) ==
    /\ subscribedAs # currentUser
    /\ BagCardinality(setupCalls) < MaxSetupCalls
    /\ appLoading' = TRUE
    /\ setupCalls' = setupCalls (+) Call("getSession", NoSession, 0)
    /\ subscribedAs' = currentUser
    /\ IF initialEvent
       THEN /\ Len(authEvents) < MaxAuthEvents
            /\ authEvents' = Append(authEvents, session)
       ELSE UNCHANGED authEvents
    /\ UNCHANGED <<currentUser, authError, session, logins>>
    /\ AuthFrame

\* getSession() resolves with the session the client holds at that moment
GetSessionDone ==
    \E c \in CallsAt("getSession") :
        /\ setupUser(session, setupCalls (-) SetToBag({c}), appLoading)
        /\ UNCHANGED <<authError, session, subscribedAs, authEvents, logins>>
        /\ AuthFrame

\* the onAuthStateChange callback of the live subscription
AuthStateChange ==
    /\ authEvents # <<>>
    /\ subscribedAs # NotSubscribed
    /\ LET s == Head(authEvents)
       IN  IF s # subscribedAs
           THEN setupUser(s, setupCalls, TRUE)
           ELSE UNCHANGED <<currentUser, appLoading, setupCalls>>
    /\ authEvents' = Tail(authEvents)
    /\ UNCHANGED <<authError, session, subscribedAs, logins>>
    /\ AuthFrame

\* mutant: a profile that was read is taken as the current user whether or
\* not it is active
FetchProfileAnswer_IgnoresIsActive(c, code) ==
    /\ c \in CallsAt("fetchProfile")
    /\ LET rest == setupCalls (-) SetToBag({c})
           profile == ProfileOf(c.sess)
       IN  IF profile.role = "missing"
           THEN IF code = "PGRST116" /\ c.attempts > 1
                THEN /\ setupCalls' = rest (+) Call("retryWait", c.sess, c.attempts - 1)
                     /\ UNCHANGED <<currentUser, authError, appLoading>>
                ELSE /\ authError' = "profile"
                     /\ setupCalls' = rest (+) Call("signOut", c.sess, 0)
                     /\ UNCHANGED <<currentUser, appLoading>>
           ELSE /\ currentUser' = c.sess
                /\ authError' = ""
                /\ appLoading' = FALSE
                /\ setupCalls' = rest
    /\ UNCHANGED <<session, subscribedAs, authEvents, logins>>
    /\ AuthFrame

\* fetchProfile's query answers for call c, with error code `code` when the
\* row cannot be read: a retry after one second for PGRST116 on the first
\* attempt, otherwise setAuthError and null, on which setupUser signs out;
\* a profile that was read is the current user only when it is active
FetchProfileAnswer(c, code) ==
    /\ c \in CallsAt("fetchProfile")
    /\ LET rest == setupCalls (-) SetToBag({c})
           profile == ProfileOf(c.sess)
       IN  IF profile.role = "missing"
           THEN IF code = "PGRST116" /\ c.attempts > 1
                THEN /\ setupCalls' = rest (+) Call("retryWait", c.sess, c.attempts - 1)
                     /\ UNCHANGED <<currentUser, authError, appLoading>>
                ELSE /\ authError' = "profile"
                     /\ setupCalls' = rest (+) Call("signOut", c.sess, 0)
                     /\ UNCHANGED <<currentUser, appLoading>>
           ELSE IF ~profile.isActive
                THEN /\ authError' = "inactive"
                     /\ setupCalls' = rest (+) Call("signOut", c.sess, 0)
                     /\ UNCHANGED <<currentUser, appLoading>>
                ELSE /\ currentUser' = c.sess
                     /\ authError' = ""
                     /\ appLoading' = FALSE
                     /\ setupCalls' = rest
    /\ UNCHANGED <<session, subscribedAs, authEvents, logins>>
    /\ AuthFrame

FetchProfileDone ==
    \E c \in CallsAt("fetchProfile"), code \in {"PGRST116", "other"} :
        FetchProfileAnswer(c, code)

\* the one-second timer of the retry fires
RetryWaitDone ==
    \E c \in CallsAt("retryWait") :
        /\ setupCalls' = (setupCalls (-) SetToBag({c}))
                            (+) Call("fetchProfile", c.sess, c.attempts)
        /\ UNCHANGED <<currentUser, authError, appLoading, session, subscribedAs,
                       authEvents, logins>>
        /\ AuthFrame

\* supabase.auth.signOut() of setupUser resolves: the client has dropped its
\* session and announced it; setCurrentUser(null), setLoading(false)
SignOutDone ==
    \E c \in CallsAt("signOut") :
        /\ Len(authEvents) < MaxAuthEvents
        /\ session' = NoSession
        /\ authEvents' = Append(authEvents, NoSession)
        /\ currentUser' = NoUser
        /\ appLoading' = FALSE
        /\ setupCalls' = setupCalls (-) SetToBag({c})
        /\ UNCHANGED <<authError, subscribedAs, logins>>
        /\ AuthFrame

\* App.handleLogin from the Auth form, up to await signInWithPassword
handleLogin(account) ==
    /\ AppRendered = "Auth"
    /\ logins < MaxLogins
    /\ BagCardinality(setupCalls) < MaxSetupCalls
    /\ logins' = logins + 1
    /\ authError' = ""
    /\ setupCalls' = setupCalls (+) Call("signIn", account, 0)
    /\ UNCHANGED <<currentUser, appLoading, session, subscribedAs, authEvents>>
    /\ AuthFrame

\* signInWithPassword resolves: the client holds the new session and
\* announces it, or the error becomes authError
LoginAnswer(c, ok) ==
    /\ c \in CallsAt("signIn")
    /\ setupCalls' = setupCalls (-) SetToBag({c})
    /\ IF ok
       THEN /\ Len(authEvents) < MaxAuthEvents
            /\ session' = c.sess
            /\ authEvents' = Append(authEvents, c.sess)
            /\ UNCHANGED authError
       ELSE /\ authError' = "login"
            /\ UNCHANGED <<session, authEvents>>
    /\ UNCHANGED <<currentUser, appLoading, subscribedAs, logins>>
    /\ AuthFrame

LoginDone == \E c \in CallsAt("signIn"), ok \in BOOLEAN : LoginAnswer(c, ok)

\* App.handleLogout from MainApp, up to await signOut
handleLogout ==
    /\ AppRendered = "MainApp"
    /\ CallsAt("logout") = {}
    /\ BagCardinality(setupCalls) < MaxSetupCalls
    /\ setupCalls' = setupCalls (+) Call("logout", NoSession, 0)
    /\ UNCHANGED <<currentUser, authError, appLoading, session, subscribedAs,
                   authEvents, logins>>
    /\ AuthFrame

\* signOut of handleLogout resolves; setCurrentUser(null)
LogoutDone ==
    \E c \in CallsAt("logout") :
        /\ Len(authEvents) < MaxAuthEvents
        /\ session' = NoSession
        /\ authEvents' = Append(authEvents, NoSession)
        /\ currentUser' = NoUser
        /\ setupCalls' = setupCalls (-) SetToBag({c})
        /\ UNCHANGED <<authError, appLoading, subscribedAs, logins>>
        /\ AuthFrame

(***************************************************************************)
(* Settings: the currencies and their default                              *)
(***************************************************************************)
\* Settings requests awaiting the backend at once
MaxSettingsCalls == 2
\* ids the currencies table gives out
MaxCurrencyId == 3

SettingsRendered == view = "settings" /\ ~mainLoading /\ mainError = ""

Defaults(rows) == {c \in rows : c.isDefault}

SettingsFrame ==
    UNCHANGED <<purchaseOrders, purchaseOrderItems, materials, dbPOs, dbItems,
                poScreenVars, calcVars, formVars, tableVars, loadVars, authVars>>

\* Settings.handleAddItem for currencies up to its await; value is the
\* trimmed text of the input
Settings_handleAddItem(value) ==
    /\ SettingsRendered
    /\ IF value = ""
       THEN UNCHANGED settingsCalls
       ELSE /\ Cardinality(settingsCalls) < MaxSettingsCalls
            /\ settingsCalls' = settingsCalls \cup {[kind |-> "add", id |-> 0]}
    /\ UNCHANGED <<currencies, dbCurrencies, nextCurrencyId, alert>>
    /\ SettingsFrame

\* the insert answers: the new row, is_default false, is appended to the
\* local list
SettingsAddAnswer(r, ok) ==
    /\ r \in settingsCalls /\ r.kind = "add"
    /\ settingsCalls' = settingsCalls \ {r}
    /\ IF ok /\ nextCurrencyId <= MaxCurrencyId
       THEN /\ dbCurrencies' = dbCurrencies
                                 \cup {[id |-> nextCurrencyId, isDefault |-> FALSE]}
            /\ currencies' = Append(currencies,
                                    [id |-> nextCurrencyId, isDefault |-> FALSE])
            /\ nextCurrencyId' = nextCurrencyId + 1
            /\ UNCHANGED alert
       ELSE /\ alert' = "Error adding item"
            /\ UNCHANGED <<currencies, dbCurrencies, nextCurrencyId>>
    /\ SettingsFrame

SettingsAddDone == \E r \in settingsCalls, ok \in BOOLEAN : SettingsAddAnswer(r, ok)

\* Settings.handleRemoveItem for a currency of the list, up to its await
Settings_handleRemoveItem(id) ==
    /\ SettingsRendered
    /\ \E c \in Range(currencies) : c.id = id
    /\ Cardinality(settingsCalls) < MaxSettingsCalls
    /\ settingsCalls' = settingsCalls \cup {[kind |-> "remove", id |-> id]}
    /\ UNCHANGED <<currencies, dbCurrencies, nextCurrencyId, alert>>
    /\ SettingsFrame

\* the delete answers
SettingsRemoveAnswer(r, ok) ==
    /\ r \in settingsCalls /\ r.kind = "remove"
    /\ settingsCalls' = settingsCalls \ {r}
    /\ IF ok
       THEN /\ dbCurrencies' = {c \in dbCurrencies : c.id # r.id}
            /\ currencies' = SelectSeq(currencies, LAMBDA c : c.id # r.id)
            /\ UNCHANGED alert
       ELSE /\ alert' = "Error removing item"
            /\ UNCHANGED <<currencies, dbCurrencies>>
    /\ UNCHANGED nextCurrencyId
    /\ SettingsFrame

SettingsRemoveDone ==
    \E r \in settingsCalls, ok \in BOOLEAN : SettingsRemoveAnswer(r, ok)

\* Settings.handleSetDefaultCurrency up to its first await: the star button
\* of a listed currency sends update is_default = false where id # currencyId
handleSetDefaultCurrency(currencyId) ==
    /\ SettingsRendered
    /\ \E c \in Range(currencies) : c.id = currencyId
    /\ Cardinality(settingsCalls) < MaxSettingsCalls
    /\ settingsCalls' = settingsCalls \cup {[kind |-> "unset", id |-> currencyId]}
    /\ UNCHANGED <<currencies, dbCurrencies, nextCurrencyId, alert>>
    /\ SettingsFrame

\* the first update answers: on error alert and return, otherwise send
\* update is_default = true where id = currencyId
UnsetDefaultAnswer(r, ok) ==
    /\ r \in settingsCalls /\ r.kind = "unset"
    /\ IF ok
       THEN /\ dbCurrencies' = {[c EXCEPT !.isDefault = c.id = r.id /\ c.isDefault] :
                                   c \in dbCurrencies}
            /\ settingsCalls' = (settingsCalls \ {r}) \cup {[kind |-> "set", id |-> r.id]}
            /\ UNCHANGED alert
       ELSE /\ alert' = "Error unsetting default currency"
            /\ settingsCalls' = settingsCalls \ {r}
            /\ UNCHANGED dbCurrencies
    /\ UNCHANGED <<currencies, nextCurrencyId>>
    /\ SettingsFrame

UnsetDefaultDone == \E r \in settingsCalls, ok \in BOOLEAN : UnsetDefaultAnswer(r, ok)

\* the second update answers; .single() is an error when the row is gone.
\* With data every local currency gets isDefault = (c.id === currencyId)
SetDefaultAnswer(r, ok) ==
    /\ r \in settingsCalls /\ r.kind = "set"
    /\ settingsCalls' = settingsCalls \ {r}
    /\ IF ok /\ \E c \in dbCurrencies : c.id = r.id
       THEN /\ dbCurrencies' = {[c EXCEPT !.isDefault = c.id = r.id \/ c.isDefault] :
                                   c \in dbCurrencies}
            /\ currencies' = [i \in 1..Len(currencies) |->
                                [currencies[i] EXCEPT !.isDefault = currencies[i].id = r.id]]
            /\ UNCHANGED alert
       ELSE /\ alert' = "Error setting default currency"
            /\ UNCHANGED <<currencies, dbCurrencies>>
    /\ UNCHANGED nextCurrencyId
    /\ SettingsFrame

SetDefaultDone == \E r \in settingsCalls, ok \in BOOLEAN : SetDefaultAnswer(r, ok)

(***************************************************************************)
(* Inputs of the calculators                                               *)
(***************************************************************************)
MaxItems == 3
MaxBomLines == 3

RECURSIVE SumFn(_)
\* sum of the values of a function with a finite domain
SumFn(f) ==
    IF DOMAIN f = {} THEN 0
    ELSE LET x == CHOOSE x \in DOMAIN f : TRUE
         IN  f[x] + SumFn([y \in (DOMAIN f) \ {x} |-> f[y]])

\* purchase orders 1..3 as loaded by fetchData; 3 never owns an item
TotalsPOs == <<[poNumber |-> 1, status |-> Draft], [poNumber |-> 2, status |-> Ordered],
               [poNumber |-> 3, status |-> Draft]>>

ItemInputs == {[poNumber |-> n, materialCode |-> m, quantity |-> q, unitCost |-> c] :
                 n \in {1, 2}, m \in {"M1", "M2"}, q \in {2, 3}, c \in {0, 1000, 2500}}

\* a purchase order holds a material at most once (availableMaterials)
ItemLists ==
    {l \in SeqsUpTo(ItemInputs, MaxItems) :
        \A i, j \in 1..Len(l) :
            (i # j) => <<l[i].poNumber, l[i].materialCode>> #
                       <<l[j].poNumber, l[j].materialCode>>}

InitTotals ==
    /\ POScreenIdle
    /\ CalcIdle
    /\ purchaseOrders = TotalsPOs
    /\ dbPOs = Range(TotalsPOs)
    /\ materials = DefaultMaterials
    /\ \E l \in ItemLists :
          /\ purchaseOrderItems = [i \in 1..Len(l) |->
                 [id |-> i, poNumber |-> l[i].poNumber,
                  materialCode |-> l[i].materialCode,
                  quantity |-> l[i].quantity, unitCost |-> l[i].unitCost]]
          /\ dbItems = {[id |-> i, poNumber |-> l[i].poNumber,
                         materialCode |-> l[i].materialCode,
                         quantity |-> l[i].quantity, unitCost |-> l[i].unitCost]
                          : i \in 1..Len(l)}

\* consumption in hundredths, wastage in percent
BomInputsCost == {<<250, 10>>, <<1, 0>>}
BomInputsQty == {<<100, 5>>, <<100, 0>>, <<73, 37>>}

BomLines(cw) == {[skuCode |-> s, materialCode |-> m,
                  consumptionPerGarment |-> x[1], wastagePercentage |-> x[2]] :
                   s \in {"S1", "S2"}, m \in {"M1", "M2"}, x \in cw}

\* a SKU's BOM holds a material at most once (availableMaterials)
BomLists(cw) ==
    {l \in SeqsUpTo(BomLines(cw), MaxBomLines) :
        \A i, j \in 1..Len(l) :
            (i # j) => <<l[i].skuCode, l[i].materialCode>> #
                       <<l[j].skuCode, l[j].materialCode>>}

WithBomIds(l) == [i \in 1..Len(l) |->
                    [bomId |-> i, skuCode |-> l[i].skuCode,
                     materialCode |-> l[i].materialCode,
                     consumptionPerGarment |-> l[i].consumptionPerGarment,
                     wastagePercentage |-> l[i].wastagePercentage]]

BomMaterials == <<[materialCode |-> "M1", costPerUnit |-> 400],
                  [materialCode |-> "M2", costPerUnit |-> 1]>>

InitBOM ==
    /\ POScreenIdle
    /\ purchaseOrders = <<>> /\ purchaseOrderItems = <<>>
    /\ dbPOs = {} /\ dbItems = {}
    /\ materials = BomMaterials
    /\ dbMaterials = {"M1", "M2"}
    /\ poListView = NotRendered
    /\ view = "dashboard"
    /\ \E l \in BomLists(BomInputsCost) : boms = WithBomIds(l)
    /\ inventory = <<>> /\ dbInventory = {}
    /\ workOrders = <<>>
    /\ selectedStyleCode = "" /\ selectedSkuCode = ""
    /\ bomView = NoBomView
    /\ selectedWorkOrder = NoWO /\ isDetailModalOpen = FALSE
    /\ woView = NoWoView
    /\ pendingDeletes = {}
    /\ FormIdle
    /\ ShellIdle
    /\ TablesLoaded

WOs == <<[woNumber |-> 1, skuCode |-> "S1", quantity |-> 100],
         [woNumber |-> 2, skuCode |-> "S2", quantity |-> 1]>>

\* M1 always has a record at load time, M2 may never have been added
InventoryInputs ==
    {<<[materialCode |-> "M1", quantityOnHand |-> q]>> : q \in {80, 100}}
    \cup {<<[materialCode |-> "M1", quantityOnHand |-> q],
            [materialCode |-> "M2", quantityOnHand |-> r]>> :
              q \in {80, 100}, r \in {1, 200}}

InitWO ==
    /\ POScreenIdle
    /\ purchaseOrders = <<>> /\ purchaseOrderItems = <<>>
    /\ dbPOs = {} /\ dbItems = {}
    /\ materials = DefaultMaterials
    /\ dbMaterials = {"M1", "M2"}
    /\ poListView = NotRendered
    /\ view = "dashboard"
    /\ \E l \in BomLists(BomInputsQty) : boms = WithBomIds(l)
    /\ \E inv \in InventoryInputs :
          /\ inventory = inv
          /\ dbInventory = {i.materialCode : i \in Range(inv)}
    /\ workOrders = WOs
    /\ selectedStyleCode = "" /\ selectedSkuCode = ""
    /\ bomView = NoBomView
    /\ selectedWorkOrder = NoWO /\ isDetailModalOpen = FALSE
    /\ woView = NoWoView
    /\ pendingDeletes = {}
    /\ FormIdle
    /\ ShellIdle
    /\ TablesLoaded

\* the BOM Builder screen opened on a catalogue with one BOM line
InitBomEdit ==
    /\ POScreenIdle
    /\ purchaseOrders = <<>> /\ purchaseOrderItems = <<>>
    /\ dbPOs = {} /\ dbItems = {}
    /\ materials = BomMaterials
    /\ dbMaterials = {"M1", "M2"}
    /\ poListView = NotRendered
    /\ view = "boms"
    /\ boms = WithBomIds(<<[skuCode |-> "S1", materialCode |-> "M1",
                            consumptionPerGarment |-> 250,
                            wastagePercentage |-> 10]>>)
    /\ inventory = <<>> /\ dbInventory = {}
    /\ workOrders = <<>>
    /\ selectedStyleCode = "" /\ selectedSkuCode = ""
    /\ bomView = NoBomView
    /\ selectedWorkOrder = NoWO /\ isDetailModalOpen = FALSE
    /\ woView = NoWoView
    /\ pendingDeletes = {}
    /\ FormIdle
    /\ ShellIdle
    /\ TablesLoaded

\* the Inventory screen opened with one record
InitInv ==
    /\ POScreenIdle
    /\ purchaseOrders = <<>> /\ purchaseOrderItems = <<>>
    /\ dbPOs = {} /\ dbItems = {}
    /\ materials = DefaultMaterials
    /\ dbMaterials = {"M1", "M2"}
    /\ poListView = NotRendered
    /\ view = "inventory"
    /\ boms = <<>>
    /\ inventory = <<[materialCode |-> "M1", quantityOnHand |-> 80]>>
    /\ dbInventory = {"M1"}
    /\ workOrders = <<>>
    /\ selectedStyleCode = "" /\ selectedSkuCode = ""
    /\ bomView = NoBomView
    /\ selectedWorkOrder = NoWO /\ isDetailModalOpen = FALSE
    /\ woView = NoWoView
    /\ pendingDeletes = {}
    /\ FormIdle
    /\ ShellIdle
    /\ TablesLoaded

\* the Materials screen opened on the catalogue of InitBomEdit
InitMatBom ==
    /\ POScreenIdle
    /\ purchaseOrders = <<>> /\ purchaseOrderItems = <<>>
    /\ dbPOs = {} /\ dbItems = {}
    /\ materials = BomMaterials
    /\ dbMaterials = {"M1", "M2"}
    /\ poListView = NotRendered
    /\ view = "materials"
    /\ boms = WithBomIds(<<[skuCode |-> "S1", materialCode |-> "M1",
                            consumptionPerGarment |-> 250,
                            wastagePercentage |-> 10]>>)
    /\ inventory = <<>> /\ dbInventory = {}
    /\ workOrders = <<>>
    /\ selectedStyleCode = "" /\ selectedSkuCode = ""
    /\ bomView = NoBomView
    /\ selectedWorkOrder = NoWO /\ isDetailModalOpen = FALSE
    /\ woView = NoWoView
    /\ pendingDeletes = {}
    /\ FormIdle
    /\ ShellIdle
    /\ TablesLoaded

\* the Materials screen opened while one Draft purchase order exists
InitNumeric ==
    /\ isCreateModalOpen = FALSE /\ editingPO = NoPO
    /\ poInForm = [status |-> Draft] /\ isSubmitting = FALSE
    /\ isItemsModalOpen = FALSE /\ selectedPOForItems = NoPO
    /\ newItem = BlankItem /\ itemSubmitting = FALSE
    /\ inflight = {} /\ nextPoNumber = 2 /\ nextItemId = 1
    /\ alert = "none"
    /\ purchaseOrders = <<[poNumber |-> 1, status |-> Draft]>>
    /\ purchaseOrderItems = <<>>
    /\ dbPOs = {[poNumber |-> 1, status |-> Draft]} /\ dbItems = {}
    /\ materials = BomMaterials
    /\ dbMaterials = {"M1", "M2"}
    /\ poListView = NotRendered
    /\ view = "materials"
    /\ boms = WithBomIds(<<[skuCode |-> "S1", materialCode |-> "M1",
                            consumptionPerGarment |-> 250,
                            wastagePercentage |-> 10]>>)
    /\ inventory = <<>> /\ dbInventory = {}
    /\ workOrders = <<>>
    /\ selectedStyleCode = "" /\ selectedSkuCode = ""
    /\ bomView = NoBomView
    /\ selectedWorkOrder = NoWO /\ isDetailModalOpen = FALSE
    /\ woView = NoWoView
    /\ pendingDeletes = {}
    /\ FormIdle
    /\ ShellIdle
    /\ TablesLoaded

\* the Purchase Orders screen opened on a book that already holds a Draft and
\* an Ordered purchase order with one item each, created in earlier sessions
\* (their numbers, timestamps, are below every number Date.now() gives in
\* this session)
InitPoForm ==
    /\ isCreateModalOpen = FALSE /\ editingPO = NoPO
    /\ poInForm = [status |-> Draft] /\ isSubmitting = FALSE
    /\ isItemsModalOpen = FALSE /\ selectedPOForItems = NoPO
    /\ newItem = BlankItem /\ itemSubmitting = FALSE
    /\ inflight = {} /\ nextPoNumber = 1 /\ nextItemId = 3
    /\ alert = "none"
    /\ purchaseOrders = <<[poNumber |-> -2, status |-> Draft],
                          [poNumber |-> -1, status |-> Ordered]>>
    /\ purchaseOrderItems = <<[id |-> 1, poNumber |-> -2, materialCode |-> "M2",
                               quantity |-> 1, unitCost |-> 2500],
                              [id |-> 2, poNumber |-> -1, materialCode |-> "M1",
                               quantity |-> 2, unitCost |-> 1000]>>
    /\ dbPOs = Range(purchaseOrders)
    /\ dbItems = Range(purchaseOrderItems)
    /\ materials = DefaultMaterials
    /\ CalcIdle

\* the Work Orders screen opened on one loaded order
InitWoEdit ==
    /\ POScreenIdle
    /\ purchaseOrders = <<>> /\ purchaseOrderItems = <<>>
    /\ dbPOs = {} /\ dbItems = {}
    /\ materials = DefaultMaterials
    /\ dbMaterials = {"M1", "M2"}
    /\ poListView = NotRendered
    /\ view = "workOrders"
    /\ boms = WithBomIds(<<[skuCode |-> "S1", materialCode |-> "M1",
                            consumptionPerGarment |-> 100,
                            wastagePercentage |-> 5]>>)
    /\ inventory = <<[materialCode |-> "M1", quantityOnHand |-> 80]>>
    /\ dbInventory = {"M1"}
    /\ workOrders = <<[woNumber |-> 1, skuCode |-> "S1", quantity |-> 100]>>
    /\ selectedStyleCode = "" /\ selectedSkuCode = ""
    /\ bomView = NoBomView
    /\ selectedWorkOrder = NoWO /\ isDetailModalOpen = FALSE
    /\ woView = NoWoView
    /\ pendingDeletes = {}
    /\ FormIdle
    /\ ShellIdle
    /\ TablesLoaded

(***************************************************************************)
(* Claims about the calculators                                            *)
(***************************************************************************)
\* indices of the items owned by purchase order n
ItemsOf(n) == {i \in 1..Len(purchaseOrderItems) : purchaseOrderItems[i].poNumber = n}

\* C5: for every purchase order number the total computed by poTotals is the
\* sum of quantity * unitCost over exactly the items with that poNumber; a
\* purchase order without items is absent from the map and its displayed total
\* is 0; items (3, 10.00) and (2, 25.00) give 80.00
C5_PoTotalsSumPerOrder ==
    poListView.rendered =>
        /\ DOMAIN poListView.totals = {n \in 1..3 : ItemsOf(n) # {}}
        /\ \A po \in Range(purchaseOrders) :
              LET n == po.poNumber
                  sum == SumFn([i \in ItemsOf(n) |->
                                  purchaseOrderItems[i].quantity *
                                  purchaseOrderItems[i].unitCost])
              IN  /\ ItemsOf(n) = {} =>
                        /\ n \notin DOMAIN poListView.totals
                        /\ poListView.cells[n].total = 0
                  /\ ItemsOf(n) # {} =>
                        /\ poListView.totals[n] = sum
                        /\ poListView.cells[n].total = sum
                  /\ ( /\ Cardinality(ItemsOf(n)) = 2
                       /\ {<<purchaseOrderItems[i].quantity, purchaseOrderItems[i].unitCost>>
                             : i \in ItemsOf(n)} = {<<3, 1000>>, <<2, 2500>>} )
                     => poListView.totals[n] = 8000

C5_Witness ==
    /\ poListView.rendered
    /\ Cardinality(ItemsOf(1)) = 2
    /\ {<<purchaseOrderItems[i].quantity, purchaseOrderItems[i].unitCost>>
          : i \in ItemsOf(1)} = {<<3, 1000>>, <<2, 2500>>}
    /\ poListView.totals[1] = 8000
    /\ ItemsOf(2) # {}
    /\ 3 \notin DOMAIN poListView.totals
    /\ poListView.cells[3].total = 0

\* the BOM line with the given bomId
BomById(id) == CHOOSE b \in Range(boms) : b.bomId = id

\* the material codes of the materials snapshot
KnownCodes == {m.materialCode : m \in Range(materials)}

CostOf(code) == (CHOOSE m \in Range(materials) : m.materialCode = code).costPerUnit

\* C6: for every BOM line shown whose material is in the materials snapshot,
\* the line cost is consumptionPerGarment * costPerUnit * (1 + wastage / 100),
\* shown with two decimals; consumption 2.5, wastage 10 and unit cost 4.00
\* give 11.00
C6_LineCostFormula ==
    bomView.shown =>
        \A k \in 1..Len(bomView.rows) :
            LET row == bomView.rows[k]
                line == BomById(row.bomId)
            IN  line.materialCode \in KnownCodes =>
                  /\ row.cost = line.consumptionPerGarment * CostOf(line.materialCode)
                                  * (100 + line.wastagePercentage)
                  /\ row.costText * 10000 - 5000 <= row.cost
                  /\ row.cost < row.costText * 10000 + 5000
                  /\ ( /\ line.consumptionPerGarment = 250
                       /\ line.wastagePercentage = 10
                       /\ CostOf(line.materialCode) = 400 )
                     => row.costText = 1100

C6_Witness ==
    /\ bomView.shown
    /\ \E k \in 1..Len(bomView.rows) :
          /\ BomById(bomView.rows[k].bomId).consumptionPerGarment = 250
          /\ BomById(bomView.rows[k].bomId).wastagePercentage = 10
          /\ BomById(bomView.rows[k].bomId).materialCode = "M1"
          /\ "M1" \in KnownCodes
          /\ bomView.rows[k].cost = 11000000
          /\ bomView.rows[k].costText = 1100

\* indices of the BOM lines of the selected SKU, and those with a known material
LinesOfSku == {i \in 1..Len(boms) : boms[i].skuCode = selectedSkuCode}
KnownLinesOfSku == {i \in LinesOfSku : boms[i].materialCode \in KnownCodes}

\* C7: totalBomCost of the selected SKU is the sum of the line costs over
\* exactly the BOM lines of that SKU whose material code is in the materials
\* snapshot; lines of other SKUs and lines with an unknown material contribute
\* 0 and are still listed; a SKU without BOM lines totals 0
C7_TotalBomCostOverKnownLines ==
    bomView.shown =>
        /\ bomView.totalBomCost =
              SumFn([i \in KnownLinesOfSku |->
                       boms[i].consumptionPerGarment * CostOf(boms[i].materialCode)
                         * (100 + boms[i].wastagePercentage)])
        /\ {bomView.rows[k].bomId : k \in 1..Len(bomView.rows)} =
              {boms[i].bomId : i \in LinesOfSku}
        /\ \A k \in 1..Len(bomView.rows) :
              BomById(bomView.rows[k].bomId).materialCode \notin KnownCodes
                 => bomView.rows[k].cost = 0
        /\ LinesOfSku = {} => bomView.totalBomCost = 0

C7_Witness ==
    /\ bomView.shown
    /\ KnownLinesOfSku # {}
    /\ LinesOfSku \ KnownLinesOfSku # {}
    /\ \E i \in 1..Len(boms) :
          boms[i].skuCode # selectedSkuCode /\ boms[i].materialCode \in KnownCodes
    /\ bomView.totalBomCost > 0

\* indices of the BOM lines of the selected work order's SKU
LinesOfWO == {i \in 1..Len(boms) : boms[i].skuCode = selectedWorkOrder.skuCode}

InventoryCodes == {i.materialCode : i \in Range(inventory)}

StockOf(code) == (CHOOSE i \in Range(inventory) : i.materialCode = code).quantityOnHand

\* C8: each BOM line of the selected work order's SKU yields exactly one
\* requirement row, whose required quantity is consumptionPerGarment *
\* quantity * (1 + wastage / 100); quantity 100, consumption 1.0, wastage 5
\* and on-hand 80 give required 105.0 and shortfall 25.0
C8_OneRequirementRowPerLine ==
    woView.shown =>
        /\ Len(woView.rows) = Cardinality(LinesOfWO)
        /\ \A i \in LinesOfWO :
              /\ Cardinality({k \in 1..Len(woView.rows) :
                                woView.rows[k].bomId = boms[i].bomId}) = 1
              /\ \A k \in 1..Len(woView.rows) :
                    woView.rows[k].bomId = boms[i].bomId =>
                       /\ woView.rows[k].requiredQty =
                             boms[i].consumptionPerGarment * selectedWorkOrder.quantity
                               * (100 + boms[i].wastagePercentage)
                       /\ ( /\ selectedWorkOrder.quantity = 100
                            /\ boms[i].consumptionPerGarment = 100
                            /\ boms[i].wastagePercentage = 5
                            /\ boms[i].materialCode \in InventoryCodes
                            /\ StockOf(boms[i].materialCode) = 80 )
                          => /\ woView.rows[k].requiredQty = 1050000
                             /\ woView.rows[k].requiredText = 10500
                             /\ woView.rows[k].cell.value = 250000
                             /\ woView.rows[k].cell.text = 2500

C8_Witness ==
    /\ woView.shown
    /\ selectedWorkOrder.quantity = 100
    /\ \E k \in 1..Len(woView.rows) :
          /\ BomById(woView.rows[k].bomId).consumptionPerGarment = 100
          /\ BomById(woView.rows[k].bomId).wastagePercentage = 5
          /\ woView.rows[k].onHandQty = 80
          /\ woView.rows[k].requiredQty = 1050000
          /\ woView.rows[k].cell.value = 250000

\* on-hand stock of a material, in the units of requiredQty; 0 without a record
StockUnits(code) == IF code \in InventoryCodes THEN StockOf(code) * 10000 ELSE 0

C10_MissingInventoryCountsAsZero ==
    woView.shown =>
        \A k \in 1..Len(woView.rows) :
            woView.rows[k].materialCode \notin InventoryCodes =>
                /\ woView.rows[k].onHandQty = 0
                /\ woView.rows[k].requiredQty > 0
                /\ woView.rows[k].cell.value = woView.rows[k].requiredQty

C10_Witness ==
    /\ woView.shown
    /\ "M1" \notin InventoryCodes /\ "M1" \notin dbInventory
    /\ "M2" \notin InventoryCodes
    /\ \E k \in 1..Len(woView.rows) :
          /\ woView.rows[k].materialCode = "M1"
          /\ woView.rows[k].cell.value = woView.rows[k].requiredQty
    /\ \E k \in 1..Len(woView.rows) :
          /\ woView.rows[k].materialCode = "M2"
          /\ woView.rows[k].cell.value = woView.rows[k].requiredQty

\* C11: for a work order whose SKU has no BOM lines the requirements list is
\* empty, whatever the work order's quantity, and the detail modal is shown
C11_NoBomLinesNoRequirements ==
    \A wo \in Range(workOrders) :
        (isDetailModalOpen /\ selectedWorkOrder = wo /\ view = "workOrders"
           /\ ~\E b \in Range(boms) : b.skuCode = wo.skuCode)
        => (woView.shown /\ woView.rows = <<>>)

C11_Witness ==
    /\ woView.shown
    /\ LinesOfWO = {}
    /\ boms # <<>>
    /\ woView.rows = <<>>

\* the items at the indices S, in list order
ItemsAt(S) ==
    LET RECURSIVE pick(_)
        pick(i) == IF i > Len(purchaseOrderItems) THEN <<>>
                   ELSE IF i \in S THEN <<purchaseOrderItems[i]>> \o pick(i + 1)
                   ELSE pick(i + 1)
    IN  pick(1)

\* the entry of purchase order n in poTotals of a list, 0 when absent
TotalOf(items, n) == IF n \in DOMAIN poTotals(items) THEN poTotals(items)[n] ELSE 0

\* C17: poTotals is additive: for two disjoint sets of items of one purchase
\* order the total of their union is the sum of their totals, and items of
\* other purchase orders do not change it
C17_PoTotalsAdditive ==
    \A n \in 1..3 :
        \A A \in SUBSET ItemsOf(n) :
            \A B \in SUBSET (ItemsOf(n) \ A) :
                \A O \in SUBSET ((1..Len(purchaseOrderItems)) \ ItemsOf(n)) :
                    TotalOf(ItemsAt(A \cup B \cup O), n) =
                        TotalOf(ItemsAt(A), n) + TotalOf(ItemsAt(B), n)

C17_Witness ==
    /\ poListView.rendered
    /\ Cardinality(ItemsOf(1)) = 2
    /\ ItemsOf(2) # {}
    /\ \E i, j \in ItemsOf(1) :
          /\ i # j
          /\ poListView.totals[1] = TotalOf(ItemsAt({i}), 1) + TotalOf(ItemsAt({j}), 1)
          /\ TotalOf(ItemsAt({i}), 1) # TotalOf(ItemsAt({j}), 1)

\* backend rows of po_items whose purchase order row does not exist
Orphans(items, pos) == {i \in items : StatusIn(pos, i.poNumber) = "none"}

C20_LocalMatchesBackend ==
    inflight = {} => /\ Range(purchaseOrders) = dbPOs
                     /\ Range(purchaseOrderItems) = dbItems

\* C12: every work order held in local state, stored in the backend or sent
\* to it by handleCreateWorkOrder / handleUpdateWorkOrder has a quantity above
\* zero; a zero or negative quantity entered in the form never reaches the
\* backend
C12_WorkOrderQuantityPositive ==
    /\ \A wo \in Range(workOrders) \cup dbWorkOrders : wo.quantity > 0
    /\ selectedWorkOrder # NoWO => selectedWorkOrder.quantity > 0
    /\ \A r \in pendingWrites :
          (r.table = "work_orders" /\ r.op \in {"insert", "update"}) => r.amount > 0

\* an edited order whose form holds quantity 0 was submitted and refused, and
\* later a changed quantity was written
C12_Witness ==
    /\ alert = "constraint validation"
    /\ woIsEditModalOpen
    /\ editingWorkOrder # NoWO
    /\ editingWorkOrder.quantity <= 0
    /\ pendingWrites = {}
    /\ \E wo \in Range(workOrders) : wo.woNumber = 2 /\ wo.quantity = 3

\* C13: after any sequence of BOM Builder operations no SKU has two BOM
\* lines with the same material code, in the local list and in the table
C13_NoDuplicateBomLine ==
    /\ \A i, j \in 1..Len(boms) :
          (i # j) => <<boms[i].skuCode, boms[i].materialCode>> #
                     <<boms[j].skuCode, boms[j].materialCode>>
    /\ \A x, y \in dbBoms :
          (x # y) => <<x.skuCode, x.materialCode>> # <<y.skuCode, y.materialCode>>

\* C14: after any sequence of Inventory operations (open add modal, open edit
\* modal, submit, delete) the local inventory list holds at most one record
\* per material code
C14_OneInventoryRecordPerMaterial ==
    \A i, j \in 1..Len(inventory) :
        (i # j) => inventory[i].materialCode # inventory[j].materialCode

\* a record was deleted and added again, and another material was added
C14_Witness ==
    /\ Len(inventory) = 2
    /\ inventory[1].materialCode = "M2"
    /\ inventory[2].materialCode = "M1"
    /\ inventory[2].quantityOnHand = 50
    /\ ~invIsModalOpen

\* C18: in every state reachable through the Materials and BOM Builder
\* screens the total estimated BOM cost of every SKU is non-negative
C18_TotalBomCostNonNegative ==
    \A sk \in Range(skus) :
        totalBomCost(bomForSelectedSku(boms, sk.skuCode), materials) >= 0

\* C16: invalid numeric input never reaches persistence: every BOM line in
\* state, stored or sent has consumption > 0 and wastage >= 0, and every PO
\* item in state, stored or sent has quantity > 0 and unit cost >= 0
C16_InvalidNumbersNeverPersisted ==
    /\ \A b \in Range(boms) \cup dbBoms :
          b.consumptionPerGarment > 0 /\ b.wastagePercentage >= 0
    /\ \A r \in pendingWrites :
          (r.table = "boms" /\ r.op = "insert") => (r.amount > 0 /\ r.percent >= 0)
    /\ \A it \in Range(purchaseOrderItems) \cup dbItems :
          it.quantity > 0 /\ it.unitCost >= 0
    /\ \A r \in inflight :
          r.kind = "addItem" => (r.qty > 0 /\ r.cost >= 0)

\* the BOM half of C16 on its own
C16_BomNumbersValid ==
    /\ \A b \in Range(boms) \cup dbBoms :
          b.consumptionPerGarment > 0 /\ b.wastagePercentage >= 0
    /\ \A r \in pendingWrites :
          (r.table = "boms" /\ r.op = "insert") => (r.amount > 0 /\ r.percent >= 0)

\* the outcome C15 requires of a handler whose backend call returned an
\* error: the alert carries the handler's error message, no call is sent, and
\* no local collection changes
ErrorOutcome(message) ==
    /\ alert' = message
    /\ UNCHANGED <<purchaseOrders, purchaseOrderItems, boms, workOrders,
                   inventory, materials>>
    /\ \A q \in inflight' : q \in inflight \/ [q EXCEPT !.live = TRUE] \in inflight
    /\ pendingWrites' \subseteq pendingWrites
    /\ pendingDeletes' \subseteq pendingDeletes

\* C15: for every write handler (purchase orders, PO items, BOM lines, work
\* orders, inventory items, materials), a step in which the backend answers
\* the handler's call with an error raises the alert with the error message,
\* sends no further call and leaves the local collections unchanged
C15_ErrorAlertsWithoutRetryOrLocalChange ==
    [][ /\ \A r \in inflight :
              /\ FormSubmitUpdateAnswer(r, FALSE) => ErrorOutcome("Error updating PO")
              /\ FormSubmitCreateAnswer(r, FALSE) => ErrorOutcome("Error creating PO")
              /\ AddItemAnswer(r, FALSE) => ErrorOutcome("Error adding item")
              /\ DeleteItemAnswer(r, FALSE) => ErrorOutcome("Error deleting item")
              /\ DeletePOItemsAnswer(r, FALSE)
                    => ErrorOutcome("Could not delete PO items")
              /\ DeletePOHeaderAnswer(r, FALSE) => ErrorOutcome("Error deleting PO")
        /\ \A r \in pendingWrites :
              /\ AddItemToBOMAnswer(r, FALSE) => ErrorOutcome("Error adding BOM item")
              /\ DeleteBomItemAnswer(r, FALSE)
                    => ErrorOutcome("Error deleting BOM item")
              /\ CreateWorkOrderAnswer(r, FALSE)
                    => ErrorOutcome("Error creating work order")
              /\ UpdateWorkOrderAnswer(r, FALSE)
                    => ErrorOutcome("Error updating work order")
              /\ DeleteWorkOrderAnswer(r, FALSE)
                    => ErrorOutcome("Error deleting work order")
              /\ Inventory_FormSubmitAnswer(r, FALSE)
                    => ErrorOutcome(IF r.op = "update" THEN "Error updating inventory"
                                                       ELSE "Error adding item")
              /\ Materials_FormSubmitAnswer(r, FALSE)
                    => ErrorOutcome(IF r.op = "update" THEN "Error updating material"
                                                       ELSE "Error adding material")
        /\ \A r \in pendingDeletes :
              /\ DeleteMaterialAnswer(r, FALSE)
                    => ErrorOutcome("Error deleting material")
              /\ Inventory_DeleteItemAnswer(r, FALSE)
                    => ErrorOutcome("Error deleting inventory item")
      ]_vars

\* the insert of a BOM line was answered with an error: the alert is up, the
\* form still holds the line and the list is the loaded one
C15_Witness ==
    /\ alert = "Error adding BOM item"
    /\ view = "boms"
    /\ pendingWrites = {}
    /\ ~bomIsSubmitting
    /\ newBomItem.materialCode = "M2" /\ newBomItem.consumptionPerGarment = 250
    /\ Len(boms) = 1


\* C21: opening and closing the work order detail view are projections: the
\* step leaves the inventory, BOM, materials and work order collections as
\* they were, in the local state and in the backend tables, and sends nothing
\* to the backend
C21_DetailViewIsProjection ==
    [][(handleWoClick \/ handleCloseDetailModal)
         => /\ UNCHANGED <<inventory, boms, materials, workOrders>>
            /\ UNCHANGED <<dbInventory, dbBoms, dbMaterials, dbWorkOrders>>
            /\ UNCHANGED <<pendingWrites, pendingDeletes, inflight>>]_vars

\* the requirements of an order are on screen with a shortfall, and the stock
\* they were computed from is what was loaded
C21_Witness ==
    /\ isDetailModalOpen
    /\ woView.shown
    /\ Len(woView.rows) = 1
    /\ woView.rows[1].onHandQty = 80
    /\ woView.rows[1].shortfall > 0
    /\ inventory = <<[materialCode |-> "M1", quantityOnHand |-> 80]>>
    /\ dbInventory = {"M1"}


\* C22: every purchase order of the local list whose status is not Draft owns
\* at least one item of the local item list
C22_NonDraftOwnsItem ==
    \A p \in Range(purchaseOrders) :
        p.status # Draft => CountItems(Range(purchaseOrderItems), p.poNumber) >= 1


\* C23: every purchase order sent to the backend by the create form, and every
\* row the create form adds to purchase_orders and to the local list, has
\* status Draft; while the create form is open it holds Draft
C23_CreatedAsDraft ==
    [][ /\ \A r \in inflight' : r.kind = "createPO" => r.to = Draft
        /\ \A p \in dbPOs' :
              StatusIn(dbPOs, p.poNumber) = "none" => p.status = Draft
        /\ \A p \in Range(purchaseOrders') :
              StatusIn(Range(purchaseOrders), p.poNumber) = "none" => p.status = Draft
        /\ (isCreateModalOpen' /\ editingPO' = NoPO) => poInForm'.status = Draft ]_vars

\* a purchase order was created as Draft after the form had held another
\* status for the edit of an older purchase order
C23_Witness ==
    /\ [poNumber |-> 1, status |-> Draft] \in dbPOs
    /\ [poNumber |-> 1, status |-> Draft] \in Range(purchaseOrders)
    /\ \E p \in dbPOs : p.poNumber = -1 /\ p.status = Shipped
    /\ inflight = {}


\* C24: no purchase order has two items with the same material code, in the
\* local item list and in the po_items table
C24_NoDuplicateMaterialInPO ==
    /\ \A i, j \in 1..Len(purchaseOrderItems) :
          (i # j /\ purchaseOrderItems[i].poNumber = purchaseOrderItems[j].poNumber)
          => purchaseOrderItems[i].materialCode # purchaseOrderItems[j].materialCode
    /\ \A x, y \in dbItems :
          (x # y /\ x.poNumber = y.poNumber) => x.materialCode # y.materialCode


\* C25: when handleDeletePO(n) has succeeded, the local lists are the lists
\* of before without the purchase order numbered n and without the items whose
\* poNumber is n: every other purchase order and item is kept as it was and in
\* its place.  A handleDeletePO declined at the prompt changes neither the
\* local lists nor the tables and sends nothing.
C25_DeletePORemovesExactlyItsRows ==
    [][ /\ \A r \in inflight :
              DeletePOHeaderAnswer(r, TRUE)
              => /\ \A p \in Range(purchaseOrders) :
                       (p \in Range(purchaseOrders')) <=> (p.poNumber # r.po)
                 /\ \A i \in Range(purchaseOrderItems) :
                       (i \in Range(purchaseOrderItems')) <=> (i.poNumber # r.po)
                 /\ Range(purchaseOrders') \subseteq Range(purchaseOrders)
                 /\ Range(purchaseOrderItems') \subseteq Range(purchaseOrderItems)
                 /\ Len(purchaseOrders') =
                       Len(purchaseOrders) - CountItems(Range(purchaseOrders), r.po)
                 /\ Len(purchaseOrderItems') =
                       Len(purchaseOrderItems)
                         - Len(itemsForThisPO(purchaseOrderItems, r.po))
        /\ \A po \in Range(purchaseOrders) :
              DeletePOClick(po, FALSE)
              => UNCHANGED <<purchaseOrders, purchaseOrderItems, dbPOs, dbItems,
                             inflight>> ]_vars

\* the Ordered purchase order of the loaded book was deleted: the Draft one,
\* its item and a purchase order created meanwhile are what is left
C25_Witness ==
    /\ purchaseOrders = <<[poNumber |-> -2, status |-> Draft],
                          [poNumber |-> 1, status |-> Draft]>>
    /\ Len(purchaseOrderItems) = 1
    /\ purchaseOrderItems[1].poNumber = -2
    /\ dbPOs = Range(purchaseOrders)
    /\ dbItems = Range(purchaseOrderItems)
    /\ inflight = {}


\* the submits of one form that are awaiting the backend
HeaderSubmits == {r \in inflight : r.kind \in {"createPO", "updatePO"}}
ItemSubmits == {r \in inflight : r.kind = "addItem"}
ScreenSubmits(table) ==
    {r \in pendingWrites : r.table = table /\ r.op \in {"insert", "update"}}

\* C26: of each form guarded by isSubmitting at most one submit is awaiting
\* the backend, and the form's isSubmitting is false whenever no submit of the
\* form is awaiting (its handler has finished, on whichever path)
C26_OneSubmitPerForm ==
    /\ Cardinality(HeaderSubmits) <= 1
    /\ Cardinality(ItemSubmits) <= 1
    /\ \A t \in {"work_orders", "boms", "inventory", "materials"} :
          Cardinality(ScreenSubmits(t)) <= 1
    /\ HeaderSubmits = {} => ~isSubmitting
    /\ {r \in ItemSubmits : r.live} = {} => ~itemSubmitting
    /\ ScreenSubmits("work_orders") = {} => ~woIsSubmitting
    /\ ScreenSubmits("boms") = {} => ~bomIsSubmitting
    /\ ScreenSubmits("inventory") = {} => ~invIsSubmitting
    /\ ScreenSubmits("materials") = {} => ~matIsSubmitting

\* the second half of C26 alone
C26_SubmittingResetWhenFinished ==
    /\ HeaderSubmits = {} => ~isSubmitting
    /\ {r \in ItemSubmits : r.live} = {} => ~itemSubmitting
    /\ ScreenSubmits("work_orders") = {} => ~woIsSubmitting
    /\ ScreenSubmits("boms") = {} => ~bomIsSubmitting
    /\ ScreenSubmits("inventory") = {} => ~invIsSubmitting
    /\ ScreenSubmits("materials") = {} => ~matIsSubmitting

\* C27: the initial data load is all-or-nothing. When any of the parallel
\* fetches answered with an error, fetchData has called no collection setter
\* and the error names the first failing table; when none did, every
\* collection is populated and no error is set; a screen is rendered only
\* over populated collections; and a load in progress ends with loading false
C27_LoadAllOrNothing ==
    /\ [](/\ fetchPending => mainLoading /\ NonePopulated
          /\ (~fetchPending /\ failedFetches # {})
               => /\ NonePopulated
                  /\ mainError = FirstFailed(failedFetches)
                  /\ renderView = "Error Loading Data"
          /\ (~fetchPending /\ failedFetches = {})
               => AllPopulated /\ mainError = ""
          /\ renderView \in Views("admin") => AllPopulated)
    /\ (mainLoading ~> ~mainLoading)
C27_Witness ==
    /\ failedFetches = {"po_items", "boms"}
    /\ mainError = "po_items"
    /\ ~mainLoading /\ ~fetchPending
    /\ NonePopulated
    /\ currentUser = "U"

\* C28: a session whose profile is inactive or cannot be read never becomes
\* the current user, in whatever order getSession and the auth-state-change
\* callbacks run setupUser: currentUser is never such an account, so the main
\* application is never rendered for it; the session is eventually signed
\* out with currentUser null; and loading eventually stays false
C28_UnusableProfileNeverCurrent ==
    /\ [](currentUser \notin Unusable)
    /\ [](AppRendered = "MainApp" => currentUser \in Accounts \ Unusable)
    /\ \A a \in Unusable :
          (session = a) ~> (session = NoSession /\ currentUser = NoUser)
    /\ <>[](~appLoading)
C28_Witness ==
    /\ session = NoSession /\ currentUser = NoUser /\ ~appLoading
    /\ authError = "inactive"
    /\ logins = 1
    /\ setupCalls = EmptyBag /\ authEvents = <<>>
    /\ subscribedAs = NoUser

\* C29: after any sequence of handleSetDefaultCurrency, handleAddItem and
\* handleRemoveItem calls on currencies, failed updates included, at most
\* one currency is marked default, in the backend at every step and in the
\* local settings
C29_AtMostOneDefault ==
    /\ Cardinality(Defaults(dbCurrencies)) <= 1
    /\ Cardinality(Defaults(Range(currencies))) <= 1
\* the local half of C29: the settings never list two default currencies
C29_LocalAtMostOneDefault == Cardinality(Defaults(Range(currencies))) <= 1


InitAll == InitPO /\ CalcIdle

NextPO ==
    \/ handleOpenCreateModal
    \/ handleOpenEditModal
    \/ handleCloseModal
    \/ handleFormChange
    \/ handleFormSubmit
    \/ FormSubmitUpdateDone
    \/ FormSubmitCreateDone
    \/ handleOpenItemsModal
    \/ handleCloseItemsModal
    \/ handleNewItemChange
    \/ handleAddItem
    \/ AddItemDone
    \/ handleDeleteItem
    \/ DeleteItemDone
    \/ handleDeletePO
    \/ DeletePOItemsDone
    \/ DeletePOHeaderDone

Spec == InitAll /\ [][NextPO]_vars

\* the header form and the deletion of purchase orders on a loaded book
NextPoForm ==
    \/ handleOpenCreateModal
    \/ handleOpenEditModal
    \/ handleCloseModal
    \/ handleFormChange
    \/ handleFormSubmit
    \/ FormSubmitUpdateDone
    \/ FormSubmitCreateDone
    \/ handleDeletePO
    \/ DeletePOItemsDone
    \/ DeletePOHeaderDone

SpecPoForm == InitPoForm /\ [][NextPoForm]_vars

\* the state of MainApp and its screens as useState initialises it, over the
\* tables of the backend
MainAppInitial ==
    /\ purchaseOrders = <<>> /\ purchaseOrderItems = <<>>
    /\ materials = <<>> /\ inventory = <<>> /\ boms = <<>> /\ workOrders = <<>>
    /\ dbPOs = Range(LoadedPOs) /\ dbItems = Range(LoadedPOItems)
    /\ dbMaterials = {"M1", "M2"} /\ dbInventory = {"M1"}
    /\ dbBoms = Range(LoadedBoms) /\ dbWorkOrders = Range(LoadedWorkOrders)
    /\ isCreateModalOpen = FALSE /\ editingPO = NoPO
    /\ poInForm = [status |-> Draft] /\ isSubmitting = FALSE
    /\ isItemsModalOpen = FALSE /\ selectedPOForItems = NoPO
    /\ newItem = BlankItem /\ itemSubmitting = FALSE
    /\ inflight = {} /\ nextPoNumber = 1 /\ nextItemId = 3 /\ alert = "none"
    /\ view = "dashboard"
    /\ poListView = NotRendered
    /\ selectedStyleCode = "" /\ selectedSkuCode = ""
    /\ bomView = NoBomView
    /\ selectedWorkOrder = NoWO /\ isDetailModalOpen = FALSE
    /\ woView = [shown |-> FALSE, rows |-> <<>>]
    /\ pendingDeletes = {}
    /\ FormIdle
    /\ nextBomId = 2 /\ nextWoNumber = 2 /\ nextMatId = 3

\* MainApp mounted for a signed-in user: the effect has called fetchData,
\* which set loading and cleared the error, and awaits the parallel fetches
InitLoad ==
    /\ MainAppInitial
    /\ mainLoading = TRUE /\ mainError = "" /\ fetchPending = TRUE
    /\ failedFetches = {}
    /\ otherCollections = {}
    /\ currentUser \in {"A", "U"} /\ session = currentUser /\ subscribedAs = currentUser
    /\ authError = "" /\ appLoading = FALSE
    /\ setupCalls = EmptyBag /\ authEvents = <<>> /\ logins = 0
    /\ currencies = <<>> /\ dbCurrencies = Range(LoadedCurrencies)
    /\ settingsCalls = {} /\ nextCurrencyId = 3

NextLoad ==
    \/ FetchDataDone
    \/ Retry
    \/ \E target \in Views(ProfileOf(currentUser).role) : setView(target)

SpecLoad == InitLoad /\ [][NextLoad]_vars

\* the backend answers every query
SpecLoadFair == SpecLoad /\ WF_vars(FetchDataDone)

\* AppContent before its first effect, the auth client holding the session
\* of an earlier visit or none
InitAuth ==
    /\ MainAppInitial
    /\ mainLoading = TRUE /\ mainError = "" /\ fetchPending = FALSE
    /\ failedFetches = {}
    /\ otherCollections = {}
    /\ currencies = <<>> /\ dbCurrencies = Range(LoadedCurrencies)
    /\ settingsCalls = {} /\ nextCurrencyId = 3
    /\ currentUser = NoUser /\ authError = "" /\ appLoading = TRUE
    /\ session \in Accounts \cup {NoSession}
    /\ subscribedAs = NotSubscribed
    /\ setupCalls = EmptyBag /\ authEvents = <<>> /\ logins = 0

NextAuth ==
    \/ \E initialEvent \in BOOLEAN : AuthEffect(initialEvent)
    \/ GetSessionDone
    \/ AuthStateChange
    \/ FetchProfileDone
    \/ RetryWaitDone
    \/ SignOutDone
    \/ \E account \in Accounts : handleLogin(account)
    \/ LoginDone
    \/ handleLogout
    \/ LogoutDone

SpecAuth == InitAuth /\ [][NextAuth]_vars

\* the auth client and the backend answer, the timer fires, React runs the
\* effect and the client delivers its events
SpecAuthFair ==
    /\ SpecAuth
    /\ WF_vars(\E initialEvent \in BOOLEAN : AuthEffect(initialEvent))
    /\ WF_vars(GetSessionDone)
    /\ WF_vars(AuthStateChange)
    /\ WF_vars(FetchProfileDone)
    /\ WF_vars(RetryWaitDone)
    /\ WF_vars(SignOutDone)
    /\ WF_vars(LoginDone)
    /\ WF_vars(LogoutDone)

\* the Settings screen of a signed-in administrator after the data load
InitSettings ==
    /\ purchaseOrders = LoadedPOs /\ purchaseOrderItems = LoadedPOItems
    /\ materials = DefaultMaterials /\ inventory = LoadedInventory
    /\ boms = LoadedBoms /\ workOrders = LoadedWorkOrders
    /\ dbPOs = Range(LoadedPOs) /\ dbItems = Range(LoadedPOItems)
    /\ dbMaterials = {"M1", "M2"} /\ dbInventory = {"M1"}
    /\ dbBoms = Range(LoadedBoms) /\ dbWorkOrders = Range(LoadedWorkOrders)
    /\ isCreateModalOpen = FALSE /\ editingPO = NoPO
    /\ poInForm = [status |-> Draft] /\ isSubmitting = FALSE
    /\ isItemsModalOpen = FALSE /\ selectedPOForItems = NoPO
    /\ newItem = BlankItem /\ itemSubmitting = FALSE
    /\ inflight = {} /\ nextPoNumber = 1 /\ nextItemId = 3 /\ alert = "none"
    /\ view = "settings"
    /\ poListView = NotRendered
    /\ selectedStyleCode = "" /\ selectedSkuCode = ""
    /\ bomView = NoBomView
    /\ selectedWorkOrder = NoWO /\ isDetailModalOpen = FALSE
    /\ woView = NoWoView
    /\ pendingDeletes = {}
    /\ FormIdle
    /\ nextBomId = 2 /\ nextWoNumber = 2 /\ nextMatId = 3
    /\ ShellIdle

NextSettings ==
    \/ \E value \in {"", "EUR"} : Settings_handleAddItem(value)
    \/ SettingsAddDone
    \/ \E id \in 1..MaxCurrencyId : Settings_handleRemoveItem(id)
    \/ SettingsRemoveDone
    \/ \E currencyId \in 1..MaxCurrencyId : handleSetDefaultCurrency(currencyId)
    \/ UnsetDefaultDone
    \/ SetDefaultDone

SpecSettings == InitSettings /\ [][NextSettings]_vars

NextTotals == RenderPurchaseOrders

SpecTotals == InitTotals /\ [][NextTotals]_vars

NextBOM ==
    \/ \E target \in {"boms", "materials"} : setView(target)
    \/ handleStyleChange
    \/ handleSkuChange
    \/ handleDeleteMaterial
    \/ DeleteMaterialDone

SpecBOM == InitBOM /\ [][NextBOM]_vars

NextWO ==
    \/ \E target \in {"workOrders", "inventory"} : setView(target)
    \/ handleWoClick
    \/ handleCloseDetailModal
    \/ Inventory_handleDeleteItem
    \/ Inventory_DeleteItemDone

SpecWO == InitWO /\ [][NextWO]_vars

NextWoEdit ==
    \/ WO_openCreateModal
    \/ handleEditClick
    \/ WO_closeFormModal
    \/ WO_handleFormChange
    \/ handleCreateWorkOrder
    \/ CreateWorkOrderDone
    \/ handleUpdateWorkOrder
    \/ UpdateWorkOrderDone
    \/ handleDeleteWorkOrder
    \/ DeleteWorkOrderDone
    \/ handleWoClick
    \/ handleCloseDetailModal

SpecWoEdit == InitWoEdit /\ [][NextWoEdit]_vars

NextBomEdit ==
    \/ handleStyleChange
    \/ handleSkuChange
    \/ BOM_handleNewItemChange
    \/ handleAddItemToBOM
    \/ AddItemToBOMDone
    \/ handleDeleteBomItem
    \/ DeleteBomItemDone

SpecBomEdit == InitBomEdit /\ [][NextBomEdit]_vars

NextInv ==
    \/ Inventory_handleOpenAddModal
    \/ Inventory_handleOpenEditModal
    \/ Inventory_handleCloseModal
    \/ Inventory_handleFormChange
    \/ Inventory_handleFormSubmit
    \/ Inventory_FormSubmitDone
    \/ Inventory_handleDeleteItem
    \/ Inventory_DeleteItemDone

SpecInv == InitInv /\ [][NextInv]_vars

NextMat ==
    \/ Materials_handleOpenAddModal
    \/ Materials_handleOpenEditModal
    \/ Materials_handleCloseModal
    \/ Materials_handleFormChange
    \/ Materials_handleFormSubmit
    \/ Materials_FormSubmitDone
    \/ handleDeleteMaterial
    \/ DeleteMaterialDone

NextMatBom ==
    \/ \E target \in {"boms", "materials"} : setView(target)
    \/ NextMat
    \/ handleStyleChange
    \/ handleSkuChange

SpecMatBom == InitMatBom /\ [][NextMatBom]_vars

NextNumeric ==
    \/ \E target \in {"purchaseOrders"} : setView(target)
    \/ Materials_handleOpenEditModal
    \/ Materials_handleCloseModal
    \/ Materials_handleFormChange
    \/ Materials_handleFormSubmit
    \/ Materials_FormSubmitDone
    \/ handleOpenItemsModal
    \/ handleCloseItemsModal
    \/ handleNewItemChange
    \/ handleAddItem
    \/ AddItemDone

SpecNumeric == InitNumeric /\ [][NextNumeric]_vars

\* one screen per session: every write handler of the application
InitApp == InitAll \/ InitWoEdit \/ InitBomEdit \/ InitInv \/ InitMatBom

NextApp ==
    \/ NextPO
    \/ NextWoEdit
    \/ NextBomEdit
    \/ NextInv
    \/ NextMat

SpecApp == InitApp /\ [][NextApp]_vars
====
